---- MODULE Spec2Model ----
(***************************************************************************)
(* One worker of xsknf (src/src/xsknf.c) and the AF_XDP rings it drives.   *)
(*                                                                         *)
(* The worker owns one socket per interface; every socket has a fill, an   *)
(* rx, a tx and a completion ring.  The kernel moves frames fill -> rx and *)
(* tx -> completion; the worker moves them rx -> fill (drop), rx -> tx     *)
(* (forward) and completion -> fill (recycle).                             *)
(*                                                                         *)
(* A UMEM address is 64 bits wide.  It is kept as the pair                 *)
(*   hi : the 16 bits above XSK_UNALIGNED_BUF_OFFSET_SHIFT,                *)
(*   lo : the 48 bits below it,                                            *)
(* so that the arithmetic of the source can be done on numbers TLC holds.  *)
(***************************************************************************)
EXTENDS Integers, Sequences, FiniteSets, TLC

----------------------------------------------------------------------------
(* Bounds of the model.                                                    *)

\* Descriptors per rx, tx and completion ring; the source uses
\* XSK_RING_CONS__DEFAULT_NUM_DESCS = XSK_RING_PROD__DEFAULT_NUM_DESCS = 2048.
NumDescs == 2

\* Width in bits of the per-batch bucket counters; the source uses uint8_t.
CounterBits == 1

\* Packets the NIC delivers in one behaviour.
MaxPkts == 3

----------------------------------------------------------------------------
(* Constants of the program.                                               *)

FRAMES_PER_SOCKET_SHIFT == 12

XSK_UMEM__DEFAULT_FRAME_SIZE == 4096

\* Bits of an address below the offset field of unaligned chunk mode.
XSK_UNALIGNED_BUF_OFFSET_SHIFT == 48

\* Headroom the kernel leaves in front of a received packet.
XDP_PACKET_HEADROOM == 256

\* Width of the C type int, which complete_tx uses for the owner index.
IntBits == 32

RECURSIVE Pow2(_)
Pow2(n) == IF n = 0 THEN 1 ELSE 2 * Pow2(n - 1)

\* The logarithm to base 2, rounded down.
RECURSIVE Log2(_)
Log2(n) == IF n <= 1 THEN 0 ELSE 1 + Log2(n \div 2)

\* __builtin_ffs: one plus the index of the least significant 1-bit of n,
\* 0 for n = 0.
RECURSIVE builtin_ffs(_)
builtin_ffs(n) ==
    IF n = 0 THEN 0
    ELSE IF n % 2 = 1 THEN 1
    ELSE 1 + builtin_ffs(n \div 2)

Min(a, b) == IF a < b THEN a ELSE b

FRAMES_PER_SOCKET == Pow2(FRAMES_PER_SOCKET_SHIFT)

\* Modulus of a bucket counter (256 for the uint8_t of the source).
CounterMod == Pow2(CounterBits)

\* Ring sizes, as xsknf_init and xsk_configure_socket set them.
\* Kicks of one socket the counters are followed for.
MaxKicks == 3

rx_size == NumDescs
tx_size == NumDescs
fill_size == NumDescs * 2
comp_size == NumDescs

\* Frames primed into each fill ring.  The source primes FRAMES_PER_SOCKET
\* (4096) frames into a fill ring of 2 * 2048 entries: the ring is primed full.
FramesPrimed == fill_size

----------------------------------------------------------------------------
(* State.                                                                  *)

VARIABLES
    conf,            \* struct xsknf_config, immutable after xsknf_init
    env,             \* what the classifier may return and the NIC may deliver
    fq,              \* fq[i]: fill ring of socket i, a sequence of addresses
    rx,              \* rx[i]: rx ring of socket i, a sequence of descriptors
    tx,              \* tx[i]: tx ring of socket i, a sequence of descriptors
    cq,              \* cq[i]: completion ring of socket i, addresses
    outstanding_tx,  \* xsk_socket_info.outstanding_tx of socket i
    mem,             \* mem[b]: bytes of UMEM region b, by byte offset
    pc,              \* where the worker thread is
    ifx,             \* interface the worker is processing (ifindex)
    dst,             \* destination the forward loop of process_batch is at
    to_tx,           \* the to_tx buckets of the running process_batch
    stop_workers,    \* the stop flag
    joined,          \* xsknf_stop_workers has returned
    arrivals,        \* packets the NIC has still to deliver
    ub,              \* the worker has executed undefined behaviour
    last,            \* what the last worker step did (for the properties)
    stats,           \* stats[i]: the counters of socket i, where they are kept
    self,            \* worker->id of the worker thread the CPU is running
    parked,          \* parked[w]: the state of worker thread w, not running
    at,              \* at[t]: where thread t is in the control plane
    res,             \* res[r]: resource r is "none", "live" or "released"
    joins,           \* joins[w]: who is joining worker thread w, and if it is done
    affinity,        \* affinity[t]: the CPUs thread t may run on
    egress_ebpf_program, \* the flag load_ebpf_programs sets after the TC setup
    log,             \* what went wrong in the control plane so far
    process,         \* "alive", "exited" or "crashed"
    snapshot,        \* what the last xsknf_get_socket_stats gave its caller
    xsks             \* xsks[<<w, i>>]: socket i of worker w as xsknf_init bound it

vars == <<conf, env, fq, rx, tx, cq, outstanding_tx, mem, pc, ifx, dst, to_tx,
          stop_workers, joined, arrivals, ub, last, stats, self, parked, at,
          res, joins, affinity, egress_ebpf_program, log, process, snapshot,
          xsks>>

\* The control plane: threads, resources, the process.
life == <<at, res, joins, affinity, egress_ebpf_program, log, process,
          snapshot, xsks>>

\* What no step of a worker's data path and no step of the kernel on its
\* rings touches: the other worker threads and the control plane.
off_path == <<self, parked, life>>

Ifaces == 0 .. (conf.num_interfaces - 1)

\* bind_flags & XDP_COPY of socket i
IsCopy(i) == conf.copy[i + 1]

\* One region per kind for the whole process, whatever the worker.
RegionShared(w, i) == <<0, IF IsCopy(i) THEN "copy_buffer" ELSE "buffer">>

\* The region socket i of worker w is backed by: xsknf_init maps one buffer
\* and one copy_buffer for every worker and sets xsk->buffer to the worker's
\* own (lines 960-993).
Region(w, i) == <<w, IF IsCopy(i) THEN "copy_buffer" ELSE "buffer">>

\* xsk->buffer of socket i of the running worker
Buffer(i) == Region(self, i)

----------------------------------------------------------------------------
(* Frame-address codec.                                                    *)

Addr(hi, lo) == [hi |-> hi, lo |-> lo]

owner_shift ==
    FRAMES_PER_SOCKET_SHIFT + builtin_ffs(conf.xsk_frame_size) - 1

\* xsk_umem__add_offset_to_addr: extract_addr(addr) + extract_offset(addr)
xsk_umem__add_offset_to_addr(addr) == addr.lo + addr.hi

\* The 64-bit value addr >> owner_shift equals the small number v.
ShiftedEquals(addr, v) ==
    /\ addr.hi = 0
    /\ addr.lo \div Pow2(owner_shift) = v

\* owner = addr >> owner_shift, with owner an int: the 64-bit quotient
\*   hi * 2^(48 - owner_shift) + (lo >> owner_shift)
\* is cut to its low IntBits bits and read as a signed number.  With
\* 48 - owner_shift >= IntBits nothing of hi is left in those bits.
DecodeOwner(addr) ==
    LET k  == XSK_UNALIGNED_BUF_OFFSET_SHIFT - owner_shift
        q  == addr.lo \div Pow2(owner_shift)
    IN  IF k >= IntBits THEN q
        ELSE LET h == addr.hi % Pow2(IntBits - k)
             IN  IF h >= Pow2(IntBits - k - 1)
                 THEN (h - Pow2(IntBits - k)) * Pow2(k) + q
                 ELSE h * Pow2(k) + q

\* The address xsk_configure_socket primes for frame k of a socket.
PrimedAddr(frame_size, umem_offset, k) ==
    Addr(0, (umem_offset + k) * frame_size)

\* The byte offset a raw address denotes when it is added to a buffer pointer
\* (buffer + addr); -1 when it lies beyond every mapping of the process.
RawOffset(addr) == IF addr.hi = 0 THEN addr.lo ELSE -1

----------------------------------------------------------------------------
(* Rings (xsk.h).                                                          *)

\* A reservation that never comes back short.
ReserveUnchecked(ring, size, nb) == nb

\* xsk_ring_prod__reserve: all nb entries or none
xsk_ring_prod__reserve(ring, size, nb) ==
    IF size - Len(ring) < nb THEN 0 ELSE nb

\* A peek that takes every entry of the ring, whatever was asked for.
PeekAll(ring, nb) == Len(ring)

\* xsk_ring_cons__peek: as many entries as there are, at most nb
xsk_ring_cons__peek(ring, nb) == Min(Len(ring), nb)

\* A release that leaves the entries on the ring.
ReleaseNothing(ring, n) == ring

\* xsk_ring_cons__release: the ring without its first n entries
Drop(ring, n) == SubSeq(ring, n + 1, Len(ring))

----------------------------------------------------------------------------
(* UMEM bytes.                                                             *)

Read(b, a) == IF a \in DOMAIN mem[b] THEN mem[b][a] ELSE 0

\* m with the bytes of the sequence b written at a, a + 1, ...
WriteBytes(m, a, b) ==
    [x \in (DOMAIN m) \cup {a + k : k \in 0 .. (Len(b) - 1)} |->
        IF x >= a /\ x < a + Len(b) THEN b[x - a + 1] ELSE m[x]]

----------------------------------------------------------------------------
(* Buckets: an array and its uint8_t counter (to_fill/nfill, to_drop/ndrop,  *)
(* to_tx/ntx).  arr[n++] = x, the counter wrapping at CounterMod.            *)

EmptyBucket == [arr |-> <<>>, n |-> 0]

BucketPut(b, x) ==
    [arr |-> IF b.n < Len(b.arr) THEN [b.arr EXCEPT ![b.n + 1] = x]
                                 ELSE Append(b.arr, x),
     n   |-> (b.n + 1) % CounterMod]

\* The entries a loop "for (j = 0; j < n; j++)" over the bucket reads.
BucketItems(b) == SubSeq(b.arr, 1, b.n)

EmptyBuckets == [i \in Ifaces |-> EmptyBucket]

----------------------------------------------------------------------------
(* complete_tx                                                             *)

\* A tx-kick that counts nothing, whatever the socket is bound as.
tx_trigger_none(ifindex, needs_wakeup) == 0

\* Lines 431-442 and 597-608: what complete_tx and complete_tx_1if add to
\* stats.tx_trigger_sendtos before they drain.  Tx is triggered for a socket
\* bound in copy mode, and when neither poll nor busy-poll is on and the tx
\* ring asks for a wakeup; kick_tx ends the process when sendto fails with an
\* errno it does not expect.
tx_trigger(ifindex, needs_wakeup) ==
    IF outstanding_tx[ifindex] = 0 THEN 0
    ELSE IF IsCopy(ifindex)
            \/ (~conf.poll /\ ~conf.busy_poll /\ needs_wakeup)
    THEN 1
    ELSE 0

\* The counters after a call of complete_tx or complete_tx_1if on socket
\* ifindex that kicked `kicks` times and drained `sent` descriptors, and the
\* release of `rcvd` descriptors from its rx ring (lines 529 and 679).
Counted(ifindex, kicks, sent, rcvd) ==
    IF ifindex \in DOMAIN stats
    THEN [stats EXCEPT ![ifindex] =
              [tx_npkts |-> @.tx_npkts + sent,
               tx_trigger_sendtos |-> @.tx_trigger_sendtos + kicks,
               rx_npkts |-> @.rx_npkts + rcvd]]
    ELSE stats

\* The counters are kept up to MaxKicks kicks of a socket.
Countable ==
    \A i \in DOMAIN stats : stats[i].tx_trigger_sendtos < MaxKicks

\* Lines 451-455: map every completed frame to its owner.
RECURSIVE MapToOwner(_, _)
MapToOwner(addrs, to_fill) ==
    IF addrs = <<>> THEN to_fill
    ELSE LET addr  == Head(addrs)
             owner == DecodeOwner(addr)
         IN  MapToOwner(Tail(addrs),
                 IF owner \in DOMAIN to_fill
                 THEN [to_fill EXCEPT ![owner] = BucketPut(@, addr)]
                 ELSE to_fill)

\* Lines 461-476: put the frames in their owner's fill queue, owner i onwards.
\* ok is FALSE when a reservation came back short (exit_with_error).
RECURSIVE PutInFill(_, _, _)
PutInFill(f, to_fill, i) ==
    IF i = conf.num_interfaces THEN [fq |-> f, ok |-> TRUE]
    ELSE IF to_fill[i].n = 0 THEN PutInFill(f, to_fill, i + 1)
    ELSE IF xsk_ring_prod__reserve(f[i], fill_size, to_fill[i].n)
                # to_fill[i].n
         THEN [fq |-> f, ok |-> FALSE]
         ELSE PutInFill([f EXCEPT ![i] = @ \o BucketItems(to_fill[i])],
                        to_fill, i + 1)

\* What complete_tx(xsks, ifindex) leaves: the fill and completion rings,
\* outstanding_tx, how it ended ("ok", "exit": exit_with_error, "ub": an
\* owner index outside to_fill), and sent, what it added to stats.tx_npkts.
complete_tx(ifindex) ==
    LET same == [fq |-> fq, cq |-> cq, outstanding_tx |-> outstanding_tx,
                 end |-> "ok", sent |-> 0]
    IN
    IF outstanding_tx[ifindex] = 0 THEN same
    ELSE
    LET ndescs == IF outstanding_tx[ifindex] > conf.batch_size
                  THEN conf.batch_size ELSE outstanding_tx[ifindex]
        sent   == xsk_ring_cons__peek(cq[ifindex], ndescs)
    IN
    IF sent = 0 THEN same
    ELSE
    LET addrs   == SubSeq(cq[ifindex], 1, sent)
        to_fill == MapToOwner(addrs, EmptyBuckets)
        wild    == \E k \in 1 .. sent : DecodeOwner(addrs[k]) \notin Ifaces
        cq1     == [cq EXCEPT ![ifindex] = Drop(@, sent)]
        put     == PutInFill(fq, to_fill, 0)
    IN
    IF wild
    THEN [fq |-> fq, cq |-> cq1, outstanding_tx |-> outstanding_tx,
          end |-> "ub", sent |-> sent]
    ELSE IF ~put.ok
    THEN [fq |-> put.fq, cq |-> cq1, outstanding_tx |-> outstanding_tx,
          end |-> "exit", sent |-> sent]
    ELSE [fq |-> put.fq, cq |-> cq1,
          outstanding_tx |-> [outstanding_tx EXCEPT ![ifindex] = @ - sent],
          end |-> "ok", sent |-> sent]

\* complete_tx_1if(xsk): the socket is socket 0, the owner is implicit.
complete_tx_1if ==
    LET same == [fq |-> fq, cq |-> cq, outstanding_tx |-> outstanding_tx,
                 end |-> "ok", sent |-> 0]
    IN
    IF outstanding_tx[0] = 0 THEN same
    ELSE
    LET ndescs == IF outstanding_tx[0] > conf.batch_size
                  THEN conf.batch_size ELSE outstanding_tx[0]
        sent   == xsk_ring_cons__peek(cq[0], ndescs)
    IN
    IF sent = 0 THEN same
    ELSE IF xsk_ring_prod__reserve(fq[0], fill_size, sent) # sent
    THEN [same EXCEPT !.end = "exit", !.sent = sent]
    ELSE [fq |-> [fq EXCEPT ![0] = @ \o SubSeq(cq[0], 1, sent)],
          cq |-> [cq EXCEPT ![0] = Drop(@, sent)],
          outstanding_tx |-> [outstanding_tx EXCEPT ![0] = @ - sent],
          end |-> "ok", sent |-> sent]

----------------------------------------------------------------------------
(* process_batch and process_batch_1if: receive, classify, recycle drops.   *)

\* A classification that keeps the address with the offset applied instead
\* of the original one.
RECURSIVE ClassifyOffsetApplied(_, _, _, _)
ClassifyOffsetApplied(descs, rets, k, acc) ==
    IF k > Len(descs) THEN acc
    ELSE LET pkt == [addr |-> Addr(0, xsk_umem__add_offset_to_addr(
                                          descs[k].addr)),
                     len  |-> descs[k].len]
             ret == rets[k]
         IN  ClassifyOffsetApplied(descs, rets, k + 1,
                 IF ret = -1
                 THEN [acc EXCEPT !.to_drop = BucketPut(@, pkt)]
                 ELSE IF ret \in Ifaces
                 THEN [acc EXCEPT !.to_tx[ret] = BucketPut(@, pkt)]
                 ELSE [acc EXCEPT !.wild = TRUE])

\* Lines 508-526: bucket descriptor k onwards by the classifier's return
\* value.  wild is set by a return value that indexes outside to_tx.
RECURSIVE Classify(_, _, _, _)
Classify(descs, rets, k, acc) ==
    IF k > Len(descs) THEN acc
    ELSE LET pkt == [addr |-> descs[k].addr, len |-> descs[k].len]
             ret == rets[k]
         IN  Classify(descs, rets, k + 1,
                 IF ret = -1
                 THEN [acc EXCEPT !.to_drop = BucketPut(@, pkt)]
                 ELSE IF ret \in Ifaces
                 THEN [acc EXCEPT !.to_tx[ret] = BucketPut(@, pkt)]
                 ELSE [acc EXCEPT !.wild = TRUE])

\* Lines 658-676: the same with one interface; every return value but -1
\* goes to the single to_tx array.
RECURSIVE Classify_1if(_, _, _, _)
Classify_1if(descs, rets, k, acc) ==
    IF k > Len(descs) THEN acc
    ELSE LET pkt == [addr |-> descs[k].addr, len |-> descs[k].len]
             ret == rets[k]
         IN  Classify_1if(descs, rets, k + 1,
                 IF ret = -1
                 THEN [acc EXCEPT !.to_drop = BucketPut(@, pkt)]
                 ELSE [acc EXCEPT !.to_tx[0] = BucketPut(@, pkt)])

NoBuckets == [to_drop |-> EmptyBucket, to_tx |-> EmptyBuckets, wild |-> FALSE]

\* Lines 535-547 and 682-694: the fill ring of the receiving socket after the
\* frames of the dropped packets are put back; ok is FALSE when the
\* reservation came back short.
RecycleDrops(f, ifindex, to_drop) ==
    IF to_drop.n = 0 THEN [fq |-> f, ok |-> TRUE]
    ELSE IF xsk_ring_prod__reserve(f[ifindex], fill_size, to_drop.n)
                # to_drop.n
         THEN [fq |-> f, ok |-> FALSE]
         ELSE [fq |-> [f EXCEPT ![ifindex] =
                          @ \o [j \in 1 .. to_drop.n |-> to_drop.arr[j].addr]],
               ok |-> TRUE]

\* The first destination from j on with a non-empty bucket (line 553), or
\* num_interfaces when the forward loop is over.
RECURSIVE NextDst(_, _)
NextDst(buckets, j) ==
    IF j >= conf.num_interfaces THEN conf.num_interfaces
    ELSE IF buckets[j].n # 0 THEN j
    ELSE NextDst(buckets, j + 1)

\* The worker returns from process_batch(xsks, i) into worker_loop: the next
\* interface of the for loop, or the next iteration of the while loop.
Return(i) ==
    IF conf.num_interfaces > 1 /\ i + 1 < conf.num_interfaces
    THEN /\ pc' = "batch"
         /\ ifx' = i + 1
    ELSE /\ pc' = "loop"
         /\ ifx' = 0

\* What undefined behaviour may do: kill the process, or let it run on.
UBOutcomes == {"crash", "run on"}

\* Lines 567-575: memcpy(xsks[i].buffer + addr, rx_xsk->buffer + addr, len)
\* for item k onwards.  A raw address that denotes no byte of a region
\* (RawOffset = -1) writes nothing into the regions.
RECURSIVE Memcpy(_, _, _, _, _)
Memcpy(m, items, k, src, dest) ==
    IF k > Len(items) THEN m
    ELSE LET a == RawOffset(items[k].addr)
             b == [x \in 1 .. items[k].len |->
                      IF (a + x - 1) \in DOMAIN m[src]
                      THEN m[src][a + x - 1] ELSE 0]
         IN  Memcpy(IF a = -1 THEN m
                    ELSE [m EXCEPT ![dest] = WriteBytes(@, a, b)],
                    items, k + 1, src, dest)

----------------------------------------------------------------------------
(* The worker thread.                                                      *)

\* Line 726, 727: the test of the stop flag at the top of the while loop.
worker_loop ==
    /\ pc = "loop"
    /\ pc' = IF stop_workers THEN "returned"
             ELSE IF conf.poll THEN "poll" ELSE "batch"
    /\ last' = [op |-> "loop"]
    /\ UNCHANGED <<off_path, stats>>
    /\ UNCHANGED <<conf, env, fq, rx, tx, cq, outstanding_tx, mem, ifx, dst,
                   to_tx, stop_workers, joined, arrivals, ub>>

\* Lines 733-735: poll(fds, num_interfaces, POLL_TIMEOUT_MS) returns with an
\* rx ring readable (POLLIN), or after the timeout with none.
poll ==
    /\ pc = "poll"
    /\ pc' = IF \E i \in Ifaces : rx[i] # <<>> THEN "batch" ELSE "loop"
    /\ last' = [op |-> "poll"]
    /\ UNCHANGED <<off_path, stats>>
    /\ UNCHANGED <<conf, env, fq, rx, tx, cq, outstanding_tx, mem, ifx, dst,
                   to_tx, stop_workers, joined, arrivals, ub>>

\* process_batch(xsks, ifx) up to the forward loop (lines 482-547).
general_process_batch ==
    /\ pc = "batch"
    /\ LET c     == complete_tx(ifx)
           rcvd  == xsk_ring_cons__peek(rx[ifx], conf.batch_size)
           descs == SubSeq(rx[ifx], 1, rcvd)
       IN  \E rets \in [1 .. rcvd -> env.returns] :
           LET b     == Classify(descs, rets, 1, NoBuckets)
               r     == RecycleDrops(c.fq, ifx, b.to_drop)
               anyUB == c.end = "ub" \/ b.wild
               j     == NextDst(b.to_tx, 0)
           IN  \E o \in (IF anyUB THEN UBOutcomes ELSE {"run on"}) :
               /\ cq' = c.cq
               /\ outstanding_tx' = c.outstanding_tx
               /\ ub' = (ub \/ anyUB)
               /\ IF c.end = "exit" \/ (anyUB /\ o = "crash")
                  THEN /\ pc' = IF c.end = "exit" THEN "fatal" ELSE "crashed"
                       /\ fq' = c.fq
                       /\ last' = [op |-> "stopped"]
                       /\ UNCHANGED <<rx, ifx, dst, to_tx>>
                  ELSE IF rcvd = 0
                  THEN /\ fq' = c.fq
                       /\ Return(ifx)
                       /\ last' = [op |-> "process_batch", ifindex |-> ifx,
                                   descs |-> <<>>, rets |-> <<>>]
                       /\ UNCHANGED <<rx, dst, to_tx>>
                  ELSE IF ~r.ok
                  THEN /\ pc' = "fatal"
                       /\ fq' = r.fq
                       /\ rx' = [rx EXCEPT ![ifx] = Drop(@, rcvd)]
                       /\ last' = [op |-> "stopped"]
                       /\ UNCHANGED <<ifx, dst, to_tx>>
                  ELSE /\ fq' = r.fq
                       /\ rx' = [rx EXCEPT ![ifx] = Drop(@, rcvd)]
                       /\ last' = [op |-> "process_batch", ifindex |-> ifx,
                                   descs |-> descs, rets |-> rets]
                       /\ IF j = conf.num_interfaces
                          THEN /\ Return(ifx)
                               /\ UNCHANGED <<dst, to_tx>>
                          ELSE /\ pc' = "forward"
                               /\ dst' = j
                               /\ to_tx' = b.to_tx
                               /\ UNCHANGED ifx
    /\ Countable
    /\ \E needs_wakeup \in BOOLEAN :
           stats' = Counted(ifx, tx_trigger(ifx, needs_wakeup),
                            complete_tx(ifx).sent,
                            IF complete_tx(ifx).end = "exit" THEN 0
                            ELSE xsk_ring_cons__peek(rx[ifx],
                                                     conf.batch_size))
    /\ UNCHANGED off_path
    /\ UNCHANGED <<conf, env, tx, mem, stop_workers, joined, arrivals>>

\* Line 738: worker_loop takes the general path with more than one
\* interface.
process_batch ==
    /\ conf.num_interfaces > 1
    /\ general_process_batch

\* One destination of the forward loop whose reservation succeeds
\* (lines 554, 567-587).
general_forward_tx ==
    /\ pc = "forward"
    /\ LET n     == to_tx[dst].n
           items == BucketItems(to_tx[dst])
           copy  == Buffer(ifx) # Buffer(dst)
           wild  == copy /\ \E k \in 1 .. n : RawOffset(items[k].addr) = -1
           j     == NextDst(to_tx, dst + 1)
       IN  /\ xsk_ring_prod__reserve(tx[dst], tx_size, n) = n
           /\ \E o \in (IF wild THEN UBOutcomes ELSE {"run on"}) :
              /\ ub' = (ub \/ wild)
              /\ IF o = "crash"
                 THEN /\ pc' = "crashed"
                      /\ last' = [op |-> "stopped"]
                      /\ UNCHANGED <<tx, outstanding_tx, mem, ifx, dst, to_tx>>
                 ELSE /\ mem' = IF copy
                                THEN Memcpy(mem, items, 1, Buffer(ifx),
                                            Buffer(dst))
                                ELSE mem
                      /\ tx' = [tx EXCEPT ![dst] = @ \o items]
                      /\ outstanding_tx' =
                             [outstanding_tx EXCEPT ![dst] = @ + n]
                      /\ last' = [op |-> "forward", ifindex |-> ifx,
                                  dst |-> dst, items |-> items,
                                  copy |-> copy]
                      /\ IF j = conf.num_interfaces
                         THEN /\ Return(ifx)
                              /\ dst' = 0
                              /\ to_tx' = EmptyBuckets
                         ELSE /\ dst' = j
                              /\ UNCHANGED <<pc, ifx, to_tx>>
    /\ UNCHANGED <<off_path, stats>>
    /\ UNCHANGED <<conf, env, fq, rx, cq, stop_workers, joined, arrivals>>

\* Line 738: worker_loop takes the general path with more than one
\* interface.
forward_tx ==
    /\ conf.num_interfaces > 1
    /\ general_forward_tx

\* One iteration of the retry loop (lines 555-565): the reservation on the
\* destination's tx ring came back short.
general_forward_retry ==
    /\ pc = "forward"
    /\ xsk_ring_prod__reserve(tx[dst], tx_size, to_tx[dst].n) # to_tx[dst].n
    /\ LET c == complete_tx(ifx)
       IN  \E o \in (IF c.end = "ub" THEN UBOutcomes ELSE {"run on"}) :
           /\ fq' = c.fq
           /\ cq' = c.cq
           /\ outstanding_tx' = c.outstanding_tx
           /\ ub' = (ub \/ c.end = "ub")
           /\ pc' = IF c.end = "exit" THEN "fatal"
                    ELSE IF c.end = "ub" /\ o = "crash" THEN "crashed"
                    ELSE pc
           /\ last' = [op |-> "retry", ifindex |-> ifx, dst |-> dst]
    /\ Countable
    /\ \E needs_wakeup \in BOOLEAN :
           stats' = Counted(ifx, tx_trigger(ifx, needs_wakeup),
                            complete_tx(ifx).sent, 0)
    /\ UNCHANGED off_path
    /\ UNCHANGED <<conf, env, rx, tx, mem, ifx, dst, to_tx, stop_workers,
                   joined, arrivals>>

\* Line 738: worker_loop takes the general path with more than one
\* interface.
forward_retry ==
    /\ conf.num_interfaces > 1
    /\ general_forward_retry

\* process_batch_1if(&xsks[0]) up to the tx reservation (lines 634-694).
process_batch_1if ==
    /\ pc = "batch"
    /\ conf.num_interfaces = 1
    /\ LET c     == complete_tx_1if
           rcvd  == xsk_ring_cons__peek(rx[0], conf.batch_size)
           descs == SubSeq(rx[0], 1, rcvd)
       IN  \E rets \in [1 .. rcvd -> env.returns] :
           LET b == Classify_1if(descs, rets, 1, NoBuckets)
               r == RecycleDrops(c.fq, 0, b.to_drop)
           IN  /\ cq' = c.cq
               /\ outstanding_tx' = c.outstanding_tx
               /\ IF c.end = "exit"
                  THEN /\ pc' = "fatal"
                       /\ fq' = c.fq
                       /\ last' = [op |-> "stopped"]
                       /\ UNCHANGED <<rx, ifx, dst, to_tx>>
                  ELSE IF rcvd = 0
                  THEN /\ fq' = c.fq
                       /\ Return(0)
                       /\ last' = [op |-> "process_batch", ifindex |-> 0,
                                   descs |-> <<>>, rets |-> <<>>]
                       /\ UNCHANGED <<rx, dst, to_tx>>
                  ELSE IF ~r.ok
                  THEN /\ pc' = "fatal"
                       /\ fq' = r.fq
                       /\ rx' = [rx EXCEPT ![0] = Drop(@, rcvd)]
                       /\ last' = [op |-> "stopped"]
                       /\ UNCHANGED <<ifx, dst, to_tx>>
                  ELSE /\ fq' = r.fq
                       /\ rx' = [rx EXCEPT ![0] = Drop(@, rcvd)]
                       /\ last' = [op |-> "process_batch", ifindex |-> 0,
                                   descs |-> descs, rets |-> rets]
                       /\ IF b.to_tx[0].n = 0
                          THEN /\ Return(0)
                               /\ UNCHANGED <<dst, to_tx>>
                          ELSE /\ pc' = "forward"
                               /\ to_tx' = b.to_tx
                               /\ UNCHANGED <<ifx, dst>>
    /\ Countable
    /\ \E needs_wakeup \in BOOLEAN :
           stats' = Counted(0, tx_trigger(0, needs_wakeup),
                            complete_tx_1if.sent,
                            IF complete_tx_1if.end = "exit" THEN 0
                            ELSE xsk_ring_cons__peek(rx[0], conf.batch_size))
    /\ UNCHANGED off_path
    /\ UNCHANGED <<conf, env, tx, mem, stop_workers, joined, arrivals, ub>>

\* The tx reservation of process_batch_1if succeeds (lines 698, 710-716).
forward_tx_1if ==
    /\ pc = "forward"
    /\ conf.num_interfaces = 1
    /\ LET ntx   == to_tx[0].n
           items == BucketItems(to_tx[0])
       IN  /\ xsk_ring_prod__reserve(tx[0], tx_size, ntx) = ntx
           /\ tx' = [tx EXCEPT ![0] = @ \o items]
           /\ outstanding_tx' = [outstanding_tx EXCEPT ![0] = @ + ntx]
           /\ last' = [op |-> "forward", ifindex |-> 0, dst |-> 0,
                       items |-> items, copy |-> FALSE]
    /\ Return(0)
    /\ to_tx' = EmptyBuckets
    /\ UNCHANGED <<off_path, stats>>
    /\ UNCHANGED <<conf, env, fq, rx, cq, mem, dst, stop_workers, joined,
                   arrivals, ub>>

\* One iteration of the retry loop of process_batch_1if (lines 699-708).
forward_retry_1if ==
    /\ pc = "forward"
    /\ conf.num_interfaces = 1
    /\ xsk_ring_prod__reserve(tx[0], tx_size, to_tx[0].n) # to_tx[0].n
    /\ LET c == complete_tx_1if
       IN  /\ fq' = c.fq
           /\ cq' = c.cq
           /\ outstanding_tx' = c.outstanding_tx
           /\ pc' = IF c.end = "exit" THEN "fatal" ELSE pc
    /\ last' = [op |-> "retry", ifindex |-> 0, dst |-> 0]
    /\ Countable
    /\ \E needs_wakeup \in BOOLEAN :
           stats' = Counted(0, tx_trigger(0, needs_wakeup),
                            complete_tx_1if.sent, 0)
    /\ UNCHANGED off_path
    /\ UNCHANGED <<conf, env, rx, tx, mem, ifx, dst, to_tx, stop_workers,
                   joined, arrivals, ub>>

----------------------------------------------------------------------------
(* The kernel and the NIC.                                                 *)

\* Fill -> rx: the driver takes the frame at the head of socket i's fill
\* ring, writes a packet into it and posts the rx descriptor.
KernelRx(i) ==
    /\ pc # "crashed"
    /\ arrivals > 0
    /\ fq[i] # <<>>
    /\ Len(rx[i]) < rx_size
    /\ \E len \in env.lens, byte \in env.bytes :
       LET a     == Head(fq[i])
           chunk == IF conf.unaligned_chunks THEN a.lo
                    ELSE a.lo - (a.lo % conf.xsk_frame_size)
           addr  == IF conf.unaligned_chunks
                    THEN Addr(XDP_PACKET_HEADROOM, chunk)
                    ELSE Addr(0, chunk + XDP_PACKET_HEADROOM)
       IN  /\ fq' = [fq EXCEPT ![i] = Tail(@)]
           /\ rx' = [rx EXCEPT ![i] = Append(@, [addr |-> addr, len |-> len])]
           /\ mem' = [mem EXCEPT ![Buffer(i)] =
                         WriteBytes(@, chunk + XDP_PACKET_HEADROOM,
                                    [x \in 1 .. len |-> byte])]
    /\ arrivals' = arrivals - 1
    /\ last' = [op |-> "kernel"]
    /\ UNCHANGED <<off_path, stats>>
    /\ UNCHANGED <<conf, env, tx, cq, outstanding_tx, pc, ifx, dst, to_tx,
                   stop_workers, joined, ub>>

\* Tx -> completion: the kernel sends the descriptor at the head of socket
\* j's tx ring, which it does only with room for it in the completion ring.
KernelTx(j) ==
    /\ j \in Ifaces
    /\ pc # "crashed"
    /\ tx[j] # <<>>
    /\ Len(cq[j]) < comp_size
    /\ tx' = [tx EXCEPT ![j] = Tail(@)]
    /\ cq' = [cq EXCEPT ![j] = Append(@, Head(tx[j]).addr)]
    /\ last' = [op |-> "kernel"]
    /\ UNCHANGED <<off_path, stats>>
    /\ UNCHANGED <<conf, env, fq, rx, outstanding_tx, mem, pc, ifx, dst,
                   to_tx, stop_workers, joined, arrivals, ub>>

----------------------------------------------------------------------------
(* The control thread.                                                     *)

\* xsknf_stop_workers, line 1108
xsknf_stop_workers ==
    /\ ~stop_workers
    /\ stop_workers' = TRUE
    /\ UNCHANGED <<off_path, stats>>
    /\ UNCHANGED <<conf, env, fq, rx, tx, cq, outstanding_tx, mem, pc, ifx,
                   dst, to_tx, joined, arrivals, ub, last>>

\* xsknf_stop_workers, lines 1110-1115: pthread_join returns
pthread_join ==
    /\ stop_workers
    /\ ~joined
    /\ pc = "returned"
    /\ joined' = TRUE
    /\ UNCHANGED <<off_path, stats>>
    /\ UNCHANGED <<conf, env, fq, rx, tx, cq, outstanding_tx, mem, pc, ifx,
                   dst, to_tx, stop_workers, arrivals, ub, last>>

----------------------------------------------------------------------------
(* Configurations and specifications.                                      *)

Conf(n, batch, poll_, unaligned, copy) ==
    [num_interfaces   |-> n,
     workers          |-> 1,
     working_mode     |-> {"AF_XDP"},
     tc_progname      |-> FALSE,
     batch_size       |-> batch,
     poll             |-> poll_,
     busy_poll        |-> FALSE,
     unaligned_chunks |-> unaligned,
     xsk_frame_size   |-> XSK_UMEM__DEFAULT_FRAME_SIZE,
     copy             |-> copy]

\* The classifier's contract: -1 or an interface index.
Contract(c) == {-1} \cup (0 .. (c.num_interfaces - 1))

----------------------------------------------------------------------------
(* Threads and resources of the control plane.                             *)

\* The control thread: pthread_self() in xsknf_start_workers.
main_t == 0 - 1

\* No thread: the joinid of a thread nobody is joining.
nobody == main_t - 1

WorkersOf(c) == 0 .. (c.workers - 1)

ThreadsOf(c) == {main_t} \cup WorkersOf(c)

\* A position of a thread: the step it is at, the index of the loop it is
\* in, and the call it is in ("xsknf_stop_workers", "xsknf_cleanup" called by
\* the application, or "exit_with_error").
Pos(p, i, call) == [pc |-> p, i |-> i, call |-> call]

At(p) == Pos(p, 0, "")

\* The regions and UMEMs xsknf_init creates for a worker: those of the copy
\* mode if a socket is bound in copy mode, those of zero-copy if one is not.
RegionKinds(c) ==
    {k \in {"buffer", "copy_buffer"} :
        \E i \in 1 .. c.num_interfaces : c.copy[i] = (k = "copy_buffer")}

UmemOf(k) == IF k = "copy_buffer" THEN "copy_umem" ELSE "umem"

\* Everything a complete xsknf_init creates for configuration c.
Resources(c) ==
    {<<"ifindexes", 0, 0>>}
    \cup (IF "AF_XDP" \in c.working_mode
          THEN {<<"workers", 0, 0>>}
               \cup {<<"xsks", w, 0>> : w \in WorkersOf(c)}
               \cup {<<k, w, 0>> : k \in RegionKinds(c), w \in WorkersOf(c)}
               \cup {<<UmemOf(k), w, 0>> :
                         k \in RegionKinds(c), w \in WorkersOf(c)}
               \cup {<<"xsk", w, i>> :
                         w \in WorkersOf(c), i \in 0 .. (c.num_interfaces - 1)}
          ELSE {})
    \cup (IF "XDP" \in c.working_mode
          THEN {<<"xdp", 0, i>> : i \in 0 .. (c.num_interfaces - 1)}
               \cup (IF c.tc_progname
                     THEN {<<k, 0, i>> : k \in {"qdisc", "filter"},
                                         i \in 0 .. (c.num_interfaces - 1)}
                     ELSE {})
          ELSE {})

\* xsknf_get_socket_stats has not been called.
NoSnapshot == [called |-> FALSE, ret |-> 0, read |-> FALSE]

\* The control plane while the workers run: xsknf_init and
\* xsknf_start_workers have returned, worker k is pinned to CPU k.
Serving(c) ==
    /\ at = [t \in ThreadsOf(c) |->
                 IF t = main_t THEN At("started") ELSE At("test")]
    /\ res = [r \in Resources(c) |-> "live"]
    /\ joins = [w \in WorkersOf(c) |-> [by |-> nobody, done |-> FALSE]]
    /\ affinity = [t \in ThreadsOf(c) |->
                       IF t = main_t THEN WorkersOf(c) ELSE {t}]
    /\ egress_ebpf_program = c.tc_progname
    /\ log = {}
    /\ process = "alive"
    /\ snapshot = NoSnapshot
    /\ xsks = <<>>

\* The sockets and the thread of one worker as xsknf_init (lines 945-999) and
\* xsknf_start_workers leave them: socket i is primed with the frames from
\* if_idx * FRAMES_PER_SOCKET on, the same addresses for every worker.
Started(c) ==
    [fq |-> [i \in 0 .. (c.num_interfaces - 1) |->
                [k \in 1 .. FramesPrimed |->
                    PrimedAddr(c.xsk_frame_size, i * FRAMES_PER_SOCKET,
                               k - 1)]],
     rx |-> [i \in 0 .. (c.num_interfaces - 1) |-> <<>>],
     tx |-> [i \in 0 .. (c.num_interfaces - 1) |-> <<>>],
     cq |-> [i \in 0 .. (c.num_interfaces - 1) |-> <<>>],
     outstanding_tx |-> [i \in 0 .. (c.num_interfaces - 1) |-> 0],
     pc |-> "loop",
     ifx |-> 0,
     dst |-> 0,
     to_tx |-> [i \in 0 .. (c.num_interfaces - 1) |-> EmptyBucket],
     ub |-> FALSE,
     stats |-> <<>>]

\* The state xsknf_init and xsknf_start_workers leave, for configuration c
\* and environment e, with every worker thread as t: worker 0 is running,
\* the others are ready to run.
InitFrom(c, e, t) ==
        /\ conf = c
        /\ env = e
        /\ fq = t.fq
        /\ rx = t.rx
        /\ tx = t.tx
        /\ cq = t.cq
        /\ outstanding_tx = t.outstanding_tx
        /\ mem = [r \in (0 .. (c.workers - 1)) \X {"buffer", "copy_buffer"}
                      |-> <<>>]
        /\ pc = t.pc
        /\ ifx = t.ifx
        /\ dst = t.dst
        /\ to_tx = t.to_tx
        /\ stop_workers = FALSE
        /\ joined = FALSE
        /\ arrivals = e.pkts
        /\ ub = t.ub
        /\ last = [op |-> "init"]
        /\ stats = t.stats
        /\ self = 0
        /\ parked = [w \in 1 .. (c.workers - 1) |-> t]
        /\ Serving(c)

InitWith(c, e) == InitFrom(c, e, Started(c))

Worker ==
    \/ worker_loop
    \/ poll
    \/ process_batch
    \/ forward_tx
    \/ forward_retry
    \/ process_batch_1if
    \/ forward_tx_1if
    \/ forward_retry_1if

Kernel ==
    \/ \E i \in Ifaces : KernelRx(i)
    \/ \E j \in Ifaces : KernelTx(j)

Control ==
    \/ xsknf_stop_workers
    \/ pthread_join

\* The data path: the worker and the kernel.
Next == Worker \/ Kernel

\* Batch sizes: one below the modulus of the bucket counters and one that
\* reaches it (64, the default, and 256 in the source).
Batches == {CounterMod - 1, CounterMod}

\* copy[i + 1]: socket i is bound in copy mode.
CopyModes(n) == IF n = 1 THEN {<<FALSE>>, <<TRUE>>}
                ELSE {<<FALSE, FALSE>>, <<FALSE, TRUE>>}

Confs ==
    UNION {{Conf(n, b, p, u, cp) :
                b \in Batches, p \in BOOLEAN, u \in BOOLEAN,
                cp \in CopyModes(n)} : n \in {1, 2}}

Env(c) == [returns |-> Contract(c), lens |-> {1}, bytes |-> {1},
           pkts |-> MaxPkts]

Init == \E c \in Confs : InitWith(c, Env(c))

Spec == Init /\ [][Next]_vars


----------------------------------------------------------------------------
(* Where the frames are.                                                   *)

\* The chunk (frame) an address lies in, as the kernel reads it.
ChunkOf(addr) ==
    IF conf.unaligned_chunks THEN addr.lo
    ELSE addr.lo - (addr.lo % conf.xsk_frame_size)

\* The interface whose slot range [i * 4096, (i + 1) * 4096) holds the chunk.
OwnerOfChunk(chunk) == chunk \div (FRAMES_PER_SOCKET * conf.xsk_frame_size)

SeqToChunks(s) == [k \in 1 .. Len(s) |-> ChunkOf(s[k])]

DescAddrs(s) == [k \in 1 .. Len(s) |-> s[k].addr]

RECURSIVE Concat(_, _, _)
Concat(f, i, n) == IF i >= n THEN <<>> ELSE f[i] \o Concat(f, i + 1, n)

\* The buckets of the running process_batch that are still to be enqueued.
Pending ==
    Concat([j \in Ifaces |->
               IF j >= dst THEN DescAddrs(BucketItems(to_tx[j])) ELSE <<>>],
           0, conf.num_interfaces)

InFill == Concat(fq, 0, conf.num_interfaces)
InRx   == DescAddrs(Concat(rx, 0, conf.num_interfaces))
InTx   == DescAddrs(Concat(tx, 0, conf.num_interfaces))
InCq   == Concat(cq, 0, conf.num_interfaces)

\* Every address held anywhere, ring after ring.
Everywhere == InFill \o InRx \o Pending \o InTx \o InCq

Count(s, chunk) == Cardinality({k \in 1 .. Len(s) : ChunkOf(s[k]) = chunk})

OwnedBy(s, i) ==
    Cardinality({k \in 1 .. Len(s) : OwnerOfChunk(ChunkOf(s[k])) = i})

\* C1: frame conservation.  For every interface i, the addresses of owner i
\* in the fill rings, the rx rings, the classification batch, the tx rings
\* and the completion rings number exactly the frames primed for i, and no
\* frame is held twice.
C1_FrameConservation ==
    /\ \A i \in Ifaces : OwnedBy(Everywhere, i) = FramesPrimed
    /\ \A k \in 1 .. Len(Everywhere) :
           Count(Everywhere, ChunkOf(Everywhere[k])) = 1

----------------------------------------------------------------------------
(* Owner preservation.                                                     *)

InSeq(x, s) == \E k \in 1 .. Len(s) : s[k] = x

----------------------------------------------------------------------------
(* Round-trip of drop.                                                     *)

\* The addresses of the descriptors of the last batch for which the
\* classifier returned -1, in rx order.
RECURSIVE DroppedAddrs(_, _, _)
DroppedAddrs(descs, rets, k) ==
    IF k > Len(descs) THEN <<>>
    ELSE (IF rets[k] = -1 THEN <<descs[k].addr>> ELSE <<>>)
             \o DroppedAddrs(descs, rets, k + 1)

Occurrences(s, x) == Cardinality({k \in 1 .. Len(s) : s[k] = x})

\* C3: round-trip of drop.  When process_batch or process_batch_1if returns
\* from classifying a batch of ingress i, the exact addresses of the
\* descriptors classified -1 are the last entries of the fill ring of socket
\* i, each once, in no other fill ring, in no tx ring and in no tx bucket.
C3_RoundTripOfDrop ==
    last.op = "process_batch" =>
        LET i  == last.ifindex
            d  == DroppedAddrs(last.descs, last.rets, 1)
            f  == fq[i]
        IN  /\ Len(f) >= Len(d)
            /\ SubSeq(f, Len(f) - Len(d) + 1, Len(f)) = d
            /\ \A k \in 1 .. Len(d) :
                   /\ Occurrences(InFill, d[k]) = 1
                   /\ Occurrences(InTx \o Pending, d[k]) = 0

----------------------------------------------------------------------------
(* At-most-once tx.                                                        *)

\* The addresses submitted to a tx ring and not yet drained from that
\* socket's completion ring.
InFlightTx == InTx \o InCq

\* C4: at-most-once tx.  A frame whose address has been submitted to a tx
\* ring and has not yet been drained from that socket's completion ring is
\* held exactly once: in no fill ring, no rx ring, no tx bucket, no other tx
\* ring and no other completion ring.
C4_AtMostOnceTx ==
    \A k \in 1 .. Len(InFlightTx) :
        Count(Everywhere, ChunkOf(InFlightTx[k])) = 1

\* Socket 1 has frames of ingress 0 both on its tx ring and on its
\* completion ring.
C4_Witness ==
    /\ conf.num_interfaces > 1
    /\ tx[1] # <<>>
    /\ cq[1] # <<>>
    /\ OwnerOfChunk(ChunkOf(Head(tx[1]).addr)) = 0
    /\ OwnerOfChunk(ChunkOf(Head(cq[1]))) = 0

----------------------------------------------------------------------------
(* Back-pressure: two ingress interfaces forwarding to interface 1.        *)

\* Enough packets to fill the tx ring and the completion ring of one socket
\* while the worker drains the ring once per iteration, and leave one more
\* to forward.
BackPressurePkts == 2 * (tx_size + comp_size) - 1

InitBackPressure ==
    InitWith(Conf(2, CounterMod - 1, FALSE, FALSE, <<FALSE, FALSE>>),
             [returns |-> {1}, lens |-> {1}, bytes |-> {1},
              pkts |-> BackPressurePkts])

\* The worker of a process with several interfaces.
WorkerMulti ==
    \/ worker_loop
    \/ process_batch
    \/ forward_tx
    \/ forward_retry

NextBackPressure == WorkerMulti \/ Kernel

\* The worker thread keeps running in the forward loop, and the kernel
\* transmits from a tx ring whenever the socket's completion ring has room.
SpecBackPressure ==
    /\ InitBackPressure
    /\ [][NextBackPressure]_vars
    /\ WF_vars(forward_tx)
    /\ WF_vars(forward_retry)
    /\ WF_vars(KernelTx(0))
    /\ WF_vars(KernelTx(1))

\* C5: back-pressure does not deadlock.  Whenever process_batch is in the
\* forward loop, retrying or about to reserve on a destination tx ring, the
\* reservation eventually succeeds and the worker leaves the loop.
C5_RetryEnds == (pc = "forward") ~> (pc # "forward")

----------------------------------------------------------------------------
(* outstanding_tx.                                                         *)

\* C6 as stated: outstanding_tx[j] is at most the capacity of j's tx ring.
C6_WithinTxRing ==
    \A j \in Ifaces : outstanding_tx[j] <= tx_size

\* C6: outstanding_tx[j] counts the descriptors of socket j that are on its
\* tx ring or on its completion ring, not yet drained by the worker; it is
\* at most the capacity of the tx ring plus that of the completion ring.
C6_WithinTxAndCompletionRing ==
    \A j \in Ifaces :
        /\ outstanding_tx[j] = Len(tx[j]) + Len(cq[j])
        /\ Len(tx[j]) <= tx_size
        /\ Len(cq[j]) <= comp_size
        /\ outstanding_tx[j] <= tx_size + comp_size

\* The kernel has moved descriptors to the completion ring, the worker has
\* not drained them, and outstanding_tx exceeds the tx ring's capacity.
C6_Witness ==
    \E j \in Ifaces :
        /\ cq[j] # <<>>
        /\ outstanding_tx[j] > tx_size

----------------------------------------------------------------------------
(* Shutdown.                                                               *)

\* Enough packets to fill a tx ring and leave one more to forward.
ShutdownPkts == tx_size + 1

InitShutdown ==
    \E n \in {1, 2}, p \in BOOLEAN :
        InitWith(Conf(n, CounterMod - 1, p, FALSE,
                      IF n = 1 THEN <<FALSE>> ELSE <<FALSE, FALSE>>),
                 [returns |-> {-1, n - 1}, lens |-> {1}, bytes |-> {1},
                  pkts |-> ShutdownPkts])

\* The data path and the control thread that stops the workers.
NextShutdown == Worker \/ Kernel \/ Control

\* The worker thread and the control thread keep running; nothing is assumed
\* of the kernel.
SpecShutdown ==
    /\ InitShutdown
    /\ [][NextShutdown]_vars
    /\ WF_vars(worker_loop)
    /\ WF_vars(poll)
    /\ WF_vars(process_batch)
    /\ WF_vars(forward_tx)
    /\ WF_vars(forward_retry)
    /\ WF_vars(process_batch_1if)
    /\ WF_vars(forward_tx_1if)
    /\ WF_vars(forward_retry_1if)
    /\ WF_vars(pthread_join)

\* C7: clean shutdown.  Once xsknf_stop_workers has set the stop flag, the
\* worker eventually leaves worker_loop and pthread_join returns.
C7_CleanShutdown == stop_workers ~> joined

----------------------------------------------------------------------------
(* Recycling after the traffic stops.                                      *)

InitRecycle ==
    \E n \in {1, 2}, p \in BOOLEAN :
        InitWith(Conf(n, CounterMod - 1, p, FALSE,
                      IF n = 1 THEN <<FALSE>> ELSE <<FALSE, FALSE>>),
                 [returns |-> {-1, n - 1}, lens |-> {1}, bytes |-> {1},
                  pkts |-> tx_size + 1])

\* The worker thread keeps running and the kernel completes every tx
\* descriptor submitted to it.
SpecRecycle ==
    /\ InitRecycle
    /\ [][Next]_vars
    /\ WF_vars(worker_loop)
    /\ WF_vars(poll)
    /\ WF_vars(process_batch)
    /\ WF_vars(forward_tx)
    /\ WF_vars(forward_retry)
    /\ WF_vars(process_batch_1if)
    /\ WF_vars(forward_tx_1if)
    /\ WF_vars(forward_retry_1if)
    /\ WF_vars(KernelTx(0))
    /\ WF_vars(KernelTx(1))

\* Every interface holds all its frames in its own fill ring.
AllFramesInFill ==
    \A i \in Ifaces :
        /\ Len(fq[i]) = FramesPrimed
        /\ \A k \in 1 .. Len(fq[i]) : OwnerOfChunk(ChunkOf(fq[i][k])) = i

\* C8: recycle liveness.  Once no more packets arrive, every frame
\* eventually is back in the fill ring of its owner interface.
C8_RecycleLiveness == (arrivals = 0) ~> AllFramesInFill

----------------------------------------------------------------------------
(* A classifier that breaks its contract.                                  *)

\* The classifier may also return num_interfaces, the first value outside
\* [-1, num_interfaces).
InitBadClassifier ==
    \E n \in {1, 2}, p \in BOOLEAN :
        LET c == Conf(n, CounterMod - 1, p, FALSE,
                      IF n = 1 THEN <<FALSE>> ELSE <<FALSE, FALSE>>)
        IN  InitWith(c, [returns |-> Contract(c) \cup {n}, lens |-> {1},
                         bytes |-> {1}, pkts |-> tx_size + 1])

SpecBadClassifier == InitBadClassifier /\ [][Next]_vars

\* C9: a classifier return value outside [-1, num_interfaces) is fatal.
\* process_batch and process_batch_1if never get past the classification of
\* a batch in which the classifier returned such a value: no descriptor of
\* the batch is bucketed or forwarded, the worker has aborted instead.
C9_BadReturnIsFatal ==
    last.op = "process_batch" =>
        \A k \in 1 .. Len(last.rets) : last.rets[k] \in Contract(conf)

----------------------------------------------------------------------------
(* Copy equivalence.                                                       *)

\* The len bytes of region b at the packet's data address, the address
\* xsk_umem__add_offset_to_addr gives the classifier.
PacketBytes(b, desc) ==
    [x \in 1 .. desc.len |->
        Read(b, xsk_umem__add_offset_to_addr(desc.addr) + x - 1)]

\* C10: copy equivalence.  A forward from socket i to socket j copies bytes
\* exactly when the two sockets are backed by different UMEM regions; the
\* worker survives the copy, after which the len bytes of the destination
\* region at the packet's offset equal those of the source region; and the
\* tx descriptors submitted carry the original address and len.
C10_CopyEquivalence ==
    /\ pc # "crashed"
    /\ last.op = "forward" =>
          LET src  == Buffer(last.ifindex)
              dest == Buffer(last.dst)
              n    == Len(last.items)
              ring == tx[last.dst]
          IN  /\ last.copy = (src # dest)
              /\ SubSeq(ring, Len(ring) - n + 1, Len(ring)) = last.items
              /\ \A k \in 1 .. n :
                     PacketBytes(dest, last.items[k])
                         = PacketBytes(src, last.items[k])

----------------------------------------------------------------------------
(* Two workers.                                                            *)

\* The worker thread the CPU is running, as the variables hold it.
Running ==
    [fq |-> fq, rx |-> rx, tx |-> tx, cq |-> cq,
     outstanding_tx |-> outstanding_tx, pc |-> pc, ifx |-> ifx, dst |-> dst,
     to_tx |-> to_tx, ub |-> ub, stats |-> stats]

\* The threads xsknf_start_workers created with pthread_create (line 1080)
\* run worker_loop concurrently, each on its own struct worker: the scheduler
\* parks the running thread and runs thread w from where it was.
schedule(w) ==
    /\ w \in DOMAIN parked
    /\ parked' = [x \in (DOMAIN parked \ {w}) \cup {self} |->
                     IF x = self THEN Running ELSE parked[x]]
    /\ self' = w
    /\ fq' = parked[w].fq
    /\ rx' = parked[w].rx
    /\ tx' = parked[w].tx
    /\ cq' = parked[w].cq
    /\ outstanding_tx' = parked[w].outstanding_tx
    /\ pc' = parked[w].pc
    /\ ifx' = parked[w].ifx
    /\ dst' = parked[w].dst
    /\ to_tx' = parked[w].to_tx
    /\ ub' = parked[w].ub
    /\ stats' = parked[w].stats
    /\ last' = [op |-> "schedule"]
    /\ UNCHANGED life
    /\ UNCHANGED <<conf, env, mem, stop_workers, joined, arrivals>>

\* Two workers on two interfaces, the second bound in copy mode so that a
\* forwarded packet is copied between the worker's two regions.  The NIC
\* delivers as many packets as a tx ring holds, so that no reservation on a
\* tx ring comes back short.
InitTwoWorkers ==
    \E u \in BOOLEAN :
        LET c == [Conf(2, CounterMod - 1, FALSE, u, <<FALSE, TRUE>>)
                      EXCEPT !.workers = 2]
        IN  InitWith(c, [Env(c) EXCEPT !.pkts = tx_size])

NextTwoWorkers ==
    \/ worker_loop
    \/ process_batch
    \/ forward_tx
    \/ Kernel
    \/ \E w \in DOMAIN parked : schedule(w)

SpecTwoWorkers == InitTwoWorkers /\ [][NextTwoWorkers]_vars

\* The state of worker thread w, running or parked.
ThreadOf(w) == IF w = self THEN Running ELSE parked[w]

AllWorkers == {self} \cup DOMAIN parked

\* The frames worker w holds: region and chunk of every address in a ring or
\* a to_tx bucket of one of its sockets.
FramesHeldBy(w) ==
    LET t == ThreadOf(w)
    IN  UNION {{<<Region(w, i), ChunkOf(a)>> :
                   a \in {t.fq[i][k] : k \in DOMAIN t.fq[i]}
                       \cup {t.cq[i][k] : k \in DOMAIN t.cq[i]}
                       \cup {t.rx[i][k].addr : k \in DOMAIN t.rx[i]}
                       \cup {t.tx[i][k].addr : k \in DOMAIN t.tx[i]}}
               : i \in Ifaces}

\* The regions xsknf_init mapped for worker w (worker->buffer and
\* worker->copy_buffer).
RegionsOf(w) == {w} \X {"buffer", "copy_buffer"}

\* A worker holds only frames of its own regions, and no frame is held by
\* two workers.
NoSharedFrame ==
    \A w \in AllWorkers :
        /\ \A f \in FramesHeldBy(w) : f[1] \in RegionsOf(w)
        /\ \A v \in AllWorkers \ {w} :
               FramesHeldBy(w) \cap FramesHeldBy(v) = {}

\* A step of the running worker, or of the kernel on its rings, leaves the
\* rings and counters of the other workers and their regions as they were.
NoCrossWorkerAccess ==
    self' = self =>
        /\ parked' = parked
        /\ \A r \in DOMAIN mem : r[1] # self => mem'[r] = mem[r]

----------------------------------------------------------------------------
(* The control plane: xsknf_init.                                          *)

\* Something the control plane did that the properties look at.
Event(ev, w, i) == [ev |-> ev, w |-> w, i |-> i]

\* No resource.
Nothing == <<"", 0, 0>>

\* One step of xsknf_init: the call, the resource it creates, how its failure
\* is handled ("exit_with_error", a plain "exit", or "never" when it cannot
\* fail), and whether it fails for certain.
Step(op, r, fails, must) ==
    [op |-> op, makes |-> r, fails |-> fails, must |-> must]

\* Lines 956-998 and xsk_configure_socket: socket i of worker w.  The region
\* and its UMEM are created with the first socket of their kind.
SetupSocket(c, w, i) ==
    LET k     == IF c.copy[i + 1] THEN "copy_buffer" ELSE "buffer"
        first == \A j \in 0 .. (i - 1) : c.copy[j + 1] # c.copy[i + 1]
    IN  (IF first
         THEN <<Step("mmap", <<k, w, 0>>, "exit_with_error", FALSE),
                Step("xsk_umem__create", <<UmemOf(k), w, 0>>,
                     "exit_with_error", FALSE)>>
         ELSE <<>>)
        \o <<Step("xsk_socket__create_shared", <<"xsk", w, i>>,
                  "exit_with_error", FALSE)>>
        \o (IF c.busy_poll /\ ~c.copy[i + 1]
            THEN <<Step("setsockopt", Nothing, "exit_with_error", FALSE)>>
            ELSE <<>>)
        \o <<Step("xsk_ring_prod__reserve", Nothing,
                  IF xsk_ring_prod__reserve(<<>>, fill_size, FramesPrimed)
                         = FramesPrimed
                  THEN "never" ELSE "exit_with_error",
                  FALSE)>>

\* Lines 945-999: worker w.
SetupWorker(c, w) ==
    <<Step("calloc", <<"xsks", w, 0>>, "exit_with_error", FALSE)>>
    \o Concat([i \in 0 .. (c.num_interfaces - 1) |-> SetupSocket(c, w, i)],
              0, c.num_interfaces)

\* load_tc_programs, called by load_ebpf_programs when a TC program is named.
load_tc_programs(c) ==
    <<Step("mnl_socket_open", Nothing, "exit", FALSE)>>
    \o Concat([i \in 0 .. (c.num_interfaces - 1) |->
                  <<Step("RTM_NEWQDISC", <<"qdisc", 0, i>>, "exit", FALSE),
                    Step("RTM_NEWTFILTER", <<"filter", 0, i>>, "exit",
                         FALSE)>>],
              0, c.num_interfaces)

\* load_ebpf_programs; the flag egress_ebpf_program is set once
\* load_tc_programs has returned.
load_ebpf_programs(c) ==
    <<Step("bpf_object__load", Nothing, "exit", FALSE)>>
    \o [k \in 1 .. c.num_interfaces |->
           Step("bpf_xdp_attach", <<"xdp", 0, k - 1>>, "exit", FALSE)]
    \o (IF c.tc_progname
        THEN load_tc_programs(c)
             \o <<Step("egress_ebpf_program = 1", Nothing, "never", FALSE)>>
        ELSE <<>>)

\* enter_xsks_into_map: one map update per socket.
enter_xsks_into_map(c) ==
    [k \in 1 .. (c.num_interfaces * c.workers) |->
        Step("bpf_map_update_elem", Nothing, "exit", FALSE)]

\* The steps of xsknf_init in the order of the source, for configuration c
\* when the interfaces in the set unknown do not exist.
InitSteps(c, unknown) ==
    <<Step("malloc", <<"ifindexes", 0, 0>>, "exit_with_error", FALSE)>>
    \o [k \in 1 .. c.num_interfaces |->
           Step("if_nametoindex", Nothing, "exit", (k - 1) \in unknown)]
    \o (IF "AF_XDP" \in c.working_mode
        THEN <<Step("calloc", <<"workers", 0, 0>>, "exit_with_error", FALSE)>>
             \o Concat([w \in WorkersOf(c) |-> SetupWorker(c, w)],
                       0, c.workers)
        ELSE <<>>)
    \o (IF "XDP" \in c.working_mode
        THEN load_ebpf_programs(c)
             \o (IF "AF_XDP" \in c.working_mode
                 THEN enter_xsks_into_map(c) ELSE <<>>)
        ELSE <<>>)

\* xsknf_init: the steps before step k succeed and step k fails, or every
\* step succeeds (k beyond the last).  A failure handled by exit_with_error
\* enters xsknf_cleanup; a plain exit ends the process on the spot.
xsknf_init ==
    /\ process = "alive"
    /\ at[main_t].pc = "init"
    /\ LET steps == InitSteps(conf, env.unknown)
           n     == Len(steps)
       IN  \E k \in 1 .. (n + 1) :
           LET done(r) == \E j \in 1 .. (k - 1) : steps[j].makes = r
           IN  /\ \A j \in 1 .. (k - 1) : ~steps[j].must
               /\ k <= n => steps[k].fails # "never"
               /\ res' = [r \in DOMAIN res |->
                             IF done(r) THEN "live" ELSE res[r]]
               /\ egress_ebpf_program' =
                      \E j \in 1 .. (k - 1) :
                          steps[j].op = "egress_ebpf_program = 1"
               /\ IF k > n
                  THEN /\ at' = [at EXCEPT ![main_t] = At("inited")]
                       /\ UNCHANGED <<log, process>>
                  ELSE /\ log' = log \cup {Event(steps[k].op, steps[k].makes[2],
                                                 steps[k].makes[3])}
                       /\ IF steps[k].fails = "exit"
                          THEN /\ process' = "exited"
                               /\ UNCHANGED at
                          ELSE /\ at' = [at EXCEPT ![main_t] =
                                            Pos("stop", 0, "exit_with_error")]
                               /\ UNCHANGED process
    /\ UNCHANGED <<joins, affinity, snapshot, self, parked>>
    /\ UNCHANGED <<conf, env, fq, rx, tx, cq, outstanding_tx, mem, pc, ifx,
                   dst, to_tx, stop_workers, joined, arrivals, ub, last,
                   stats, xsks>>

----------------------------------------------------------------------------
(* The control plane: xsknf_stop_workers and xsknf_cleanup, run by the     *)
(* control thread or, through exit_with_error, by a worker thread.         *)

\* The variables of the data path, which the control plane leaves alone.
data_path == <<conf, env, fq, rx, tx, cq, outstanding_tx, mem, pc, ifx, dst,
               to_tx, joined, arrivals, ub, last, stats, self, parked, xsks>>

\* Thread t executes undefined behaviour ev: the process dies of it, or the
\* thread runs on to position next.
Undefined(t, ev, next) ==
    \E o \in UBOutcomes :
        /\ log' = log \cup {ev}
        /\ IF o = "crash"
           THEN /\ process' = "crashed"
                /\ UNCHANGED at
           ELSE /\ at' = [at EXCEPT ![t] = next]
                /\ UNCHANGED process

\* Where thread t goes once the joins of xsknf_stop_workers are over: back to
\* the application, or on into xsknf_cleanup.
AfterJoins(t) ==
    IF at[t].call = "xsknf_stop_workers" THEN At("stopped")
    ELSE Pos("release", 0, at[t].call)

\* The calls of xsknf_cleanup that end in exit(EXIT_FAILURE): the one of
\* exit_with_error and the one of xsknf_start_workers (lines 1068, 1069).
Fatal(call) == call \in {"exit_with_error", "exit"}

\* xsknf_stop_workers, line 1108: the stop flag is set.
set_stop(t) ==
    /\ process = "alive"
    /\ at[t].pc = "stop"
    /\ stop_workers' = TRUE
    /\ at' = [at EXCEPT ![t] =
                 IF "AF_XDP" \in conf.working_mode
                 THEN Pos("join", 0, at[t].call)
                 ELSE AfterJoins(t)]
    /\ UNCHANGED <<res, joins, affinity, egress_ebpf_program, log, process,
                   snapshot>>
    /\ UNCHANGED data_path

\* xsknf_stop_workers, lines 1111-1112: pthread_join(workers[i].thread, NULL)
\* called by thread t for worker w = at[t].i.
\*   - workers is NULL or freed: the read of workers[i].thread is undefined;
\*   - the thread was never created (the handle is the zero calloc left) or
\*     was joined before: the join is undefined;
\*   - the target is the caller: the join returns EDEADLK;
\*   - another thread is joining the target: undefined (POSIX), the C library
\*     returns at once;
\*   - otherwise the caller becomes the joiner and waits for the thread.
join(t) ==
    /\ process = "alive"
    /\ at[t].pc = "join"
    /\ LET w    == at[t].i
           next == IF w + 1 < conf.workers
                   THEN Pos("join", w + 1, at[t].call)
                   ELSE AfterJoins(t)
       IN  IF res[<<"workers", 0, 0>>] # "live"
           THEN /\ Undefined(t, Event("read of workers, not allocated", t, w),
                             next)
                /\ UNCHANGED joins
           ELSE IF at[w].pc = "none"
           THEN /\ Undefined(t, Event("join of a thread never started", t, w),
                             next)
                /\ UNCHANGED joins
           ELSE IF joins[w].done
           THEN /\ Undefined(t, Event("join of a thread already joined", t, w),
                             next)
                /\ UNCHANGED joins
           ELSE IF w = t
           THEN /\ at' = [at EXCEPT ![t] = next]
                /\ UNCHANGED <<joins, log, process>>
           ELSE IF joins[w].by \notin {nobody, t}
           THEN /\ Undefined(t, Event("join of a thread being joined", t, w),
                             next)
                /\ UNCHANGED joins
           ELSE IF joins[w].by = nobody
           THEN /\ joins' = [joins EXCEPT ![w].by = t]
                /\ UNCHANGED <<at, log, process>>
           ELSE /\ at[w].pc = "returned"
                /\ joins' = [joins EXCEPT ![w] = [by |-> nobody,
                                                  done |-> TRUE]]
                /\ at' = [at EXCEPT ![t] = next]
                /\ UNCHANGED <<log, process>>
    /\ UNCHANGED <<res, affinity, egress_ebpf_program, snapshot,
                   stop_workers>>
    /\ UNCHANGED data_path

\* What xsknf_init leaves in the kernel on an interface.
Attachments == {"xdp", "qdisc", "filter"}

\* One release of xsknf_cleanup: the resource, and the arrays the code reads
\* on the way to it.
Rel(r, via) == [r |-> r, via |-> via]

\* Lines 1027-1036: the resources of worker w.
ReleaseWorker(c, w) ==
    [k \in 1 .. c.num_interfaces |->
        Rel(<<"xsk", w, k - 1>>, {<<"workers", 0, 0>>, <<"xsks", w, 0>>})]
    \o <<Rel(<<"umem", w, 0>>, {<<"workers", 0, 0>>}),
         Rel(<<"buffer", w, 0>>, {<<"workers", 0, 0>>}),
         Rel(<<"copy_umem", w, 0>>, {<<"workers", 0, 0>>}),
         Rel(<<"copy_buffer", w, 0>>, {<<"workers", 0, 0>>}),
         Rel(<<"xsks", w, 0>>, {<<"workers", 0, 0>>})>>

\* Lines 1026-1047 in the order of the source; egress is the flag
\* egress_ebpf_program.  Deleting a clsact qdisc deletes its filters.
ReleaseOps(c, egress) ==
    (IF "AF_XDP" \in c.working_mode
     THEN Concat([w \in WorkersOf(c) |-> ReleaseWorker(c, w)], 0, c.workers)
          \o <<Rel(<<"workers", 0, 0>>, {})>>
     ELSE <<>>)
    \o [k \in 1 .. c.num_interfaces |->
           Rel(<<"xdp", 0, k - 1>>, {<<"ifindexes", 0, 0>>})]
    \o (IF egress
        THEN Concat([i \in 0 .. (c.num_interfaces - 1) |->
                        <<Rel(<<"filter", 0, i>>, {<<"ifindexes", 0, 0>>}),
                          Rel(<<"qdisc", 0, i>>, {<<"ifindexes", 0, 0>>})>>],
                    0, c.num_interfaces)
        ELSE <<>>)
    \o <<Rel(<<"ifindexes", 0, 0>>, {})>>

\* The releases from the k-th on, applied to the resources r.  A release
\* reads its arrays: one that is NULL or freed makes the read undefined.  A
\* live resource is released; a NULL one is left alone (the delete, munmap
\* and free calls accept it); memory or a handle released before is released
\* again, which is undefined (detaching from an interface twice is not).  On
\* "crash" the process dies at the first undefined step.
RECURSIVE Released(_, _, _, _, _)
Released(ops, k, r, faults, o) ==
    IF k > Len(ops) THEN [res |-> r, faults |-> faults, crashed |-> FALSE]
    ELSE
    LET op     == ops[k]
        state  == IF op.r \in DOMAIN r THEN r[op.r] ELSE "none"
        absent == \E v \in op.via : r[v] # "live"
        fault  == IF absent
                  THEN {Event("read of an array that is not there",
                              op.r[2], op.r[3])}
                  ELSE IF state = "released" /\ op.r[1] \notin Attachments
                  THEN {Event("released twice", op.r[2], op.r[3])}
                  ELSE {}
    IN  IF fault # {} /\ o = "crash"
        THEN [res |-> r, faults |-> faults \cup fault, crashed |-> TRUE]
        ELSE Released(ops, k + 1,
                      IF fault = {} /\ state = "live"
                      THEN [r EXCEPT ![op.r] = "released"] ELSE r,
                      faults \cup fault, o)

\* xsknf_cleanup from line 1026 on, run by thread t; then the return to the
\* application, or the exit(EXIT_FAILURE) of the fatal path.
release(t) ==
    /\ process = "alive"
    /\ at[t].pc = "release"
    /\ \E o \in UBOutcomes :
       LET d == Released(ReleaseOps(conf, egress_ebpf_program), 1, res, {}, o)
       IN  /\ (o = "crash") => d.crashed
           /\ res' = d.res
           /\ log' = log \cup d.faults
           /\ process' = IF d.crashed THEN "crashed"
                         ELSE IF Fatal(at[t].call) THEN "exited"
                         ELSE "alive"
           /\ at' = [at EXCEPT ![t] =
                        IF d.crashed \/ Fatal(at[t].call) THEN @
                        ELSE IF at[t].call = "xsknf_cleanup"
                        THEN At("cleaned")
                        ELSE At("cleaned again")]
    /\ UNCHANGED <<joins, affinity, egress_ebpf_program, snapshot,
                   stop_workers>>
    /\ UNCHANGED data_path

----------------------------------------------------------------------------
(* The control plane: xsknf_start_workers and the worker threads.          *)

\* The list with CPU k - 1 at place k, whatever the mask holds.
CpuListDense(cpu_set, i, cpus) ==
    [k \in 1 .. Cardinality(cpu_set) |-> k - 1]

\* Lines 1072-1076: the CPUs of cpu_set in ascending order, found by testing
\* CPU i for i = 0, 1, ... until all of them are found.
RECURSIVE CpuList(_, _, _)
CpuList(cpu_set, i, cpus) ==
    IF Len(cpus) >= Cardinality(cpu_set) THEN cpus
    ELSE CpuList(cpu_set, i + 1,
                 IF i \in cpu_set THEN Append(cpus, i) ELSE cpus)

\* xsknf_start_workers up to the loop that creates the threads
\* (lines 1052-1076).
xsknf_start_workers ==
    /\ process = "alive"
    /\ at[main_t].pc = "inited"
    /\ stop_workers' = FALSE
    /\ IF "AF_XDP" \notin conf.working_mode
       THEN /\ at' = [at EXCEPT ![main_t] = At("started")]
            /\ UNCHANGED log
       ELSE \/ /\ at' = [at EXCEPT ![main_t] =
                            Pos("stop", 0, "exit_with_error")]
               /\ log' = log \cup {Event("pthread_getaffinity_np", 0, 0)}
            \/ IF Cardinality(affinity[main_t]) < conf.workers
               THEN /\ at' = [at EXCEPT ![main_t] = Pos("stop", 0, "exit")]
                    /\ log' = log \cup {Event("not enough CPUs", 0, 0)}
               ELSE /\ at' = [at EXCEPT ![main_t] = Pos("spawn", 0, "")]
                    /\ UNCHANGED log
    /\ UNCHANGED <<res, joins, affinity, egress_ebpf_program, process,
                   snapshot>>
    /\ UNCHANGED data_path

\* One turn of the loop of xsknf_start_workers (lines 1079-1100):
\* pthread_create fails; or the thread runs and pthread_setaffinity_np fails;
\* or the thread runs pinned to cpus[curr_cpu].  A new thread starts with the
\* affinity of its creator.
spawn ==
    /\ process = "alive"
    /\ at[main_t].pc = "spawn"
    /\ LET i    == at[main_t].i
           cpus == CpuList(affinity[main_t], 0, <<>>)
           next == IF i + 1 < conf.workers THEN Pos("spawn", i + 1, "")
                   ELSE At("started")
           fail == Pos("stop", 0, "exit_with_error")
       IN  \/ /\ at' = [at EXCEPT ![main_t] = fail]
              /\ log' = log \cup {Event("pthread_create", i, 0)}
              /\ UNCHANGED affinity
           \/ /\ at' = [at EXCEPT ![main_t] = fail, ![i] = At("test")]
              /\ affinity' = [affinity EXCEPT ![i] = affinity[main_t]]
              /\ log' = log \cup {Event("pthread_setaffinity_np", i, 0)}
           \/ /\ at' = [at EXCEPT ![main_t] = next, ![i] = At("test")]
              /\ affinity' = [affinity EXCEPT ![i] = {cpus[i + 1]}]
              /\ UNCHANGED log
    /\ UNCHANGED <<res, joins, egress_ebpf_program, process, snapshot,
                   stop_workers>>
    /\ UNCHANGED data_path

\* worker_loop, line 726: worker w tests the stop flag at the top of its
\* loop, and returns or enters the body of the loop.
worker_test(w) ==
    /\ process = "alive"
    /\ at[w].pc = "test"
    /\ at' = [at EXCEPT ![w] = IF stop_workers THEN At("returned")
                               ELSE At("body")]
    /\ UNCHANGED <<res, joins, affinity, egress_ebpf_program, log, process,
                   snapshot, stop_workers>>
    /\ UNCHANGED data_path

\* worker_loop, lines 727-744: worker w gets through the body of its loop.
worker_batch(w) ==
    /\ process = "alive"
    /\ at[w].pc = "body"
    /\ at' = [at EXCEPT ![w] = At("test")]
    /\ UNCHANGED <<res, joins, affinity, egress_ebpf_program, log, process,
                   snapshot, stop_workers>>
    /\ UNCHANGED data_path

\* Worker w calls exit_with_error from the body of its loop: sendto failed
\* in kick_tx (line 410) or a reservation on a fill ring came back short.
worker_fatal(w) ==
    /\ process = "alive"
    /\ at[w].pc = "body"
    /\ at' = [at EXCEPT ![w] = Pos("stop", 0, "exit_with_error")]
    /\ log' = log \cup {Event("exit_with_error in worker_loop", w, 0)}
    /\ UNCHANGED <<res, joins, affinity, egress_ebpf_program, process,
                   snapshot, stop_workers>>
    /\ UNCHANGED data_path

\* Worker thread w can still execute the run-loop: it is in the body of the
\* loop, or at its top with the stop flag clear.
CanRun(w) ==
    \/ at[w].pc = "body"
    \/ at[w].pc = "test" /\ ~stop_workers

----------------------------------------------------------------------------
(* The application: the calls it makes after xsknf_start_workers.          *)

\* The application calls xsknf_stop_workers.
call_stop_workers ==
    /\ process = "alive"
    /\ at[main_t].pc = "started"
    /\ at' = [at EXCEPT ![main_t] = Pos("stop", 0, "xsknf_stop_workers")]
    /\ UNCHANGED <<res, joins, affinity, egress_ebpf_program, log, process,
                   snapshot, stop_workers>>
    /\ UNCHANGED data_path

\* The application calls xsknf_cleanup.
call_cleanup ==
    /\ process = "alive"
    /\ at[main_t].pc \in {"inited", "started", "stopped"}
    /\ at' = [at EXCEPT ![main_t] = Pos("stop", 0, "xsknf_cleanup")]
    /\ UNCHANGED <<res, joins, affinity, egress_ebpf_program, log, process,
                   snapshot, stop_workers>>
    /\ UNCHANGED data_path

\* The application calls xsknf_cleanup a second time.
call_cleanup_again ==
    /\ process = "alive"
    /\ at[main_t].pc = "cleaned"
    /\ at' = [at EXCEPT ![main_t] = Pos("stop", 0, "xsknf_cleanup again")]
    /\ UNCHANGED <<res, joins, affinity, egress_ebpf_program, log, process,
                   snapshot, stop_workers>>
    /\ UNCHANGED data_path

----------------------------------------------------------------------------
(* xsknf_get_socket_stats.                                                 *)

\* sizeof(stats) in xsk_get_xdp_stats, where stats is a pointer (line 90).
SizeofStatsPointer == 8

\* sizeof(struct xdp_statistics): six 64-bit counters (lines 95-101).
SizeofXdpStatistics == 48

\* The three counters struct xdp_statistics had in its first version.
SizeofXdpStatisticsV1 == 24

\* The kernel's getsockopt(fd, SOL_XDP, XDP_STATISTICS) for a buffer of
\* optlen bytes: it refuses a buffer shorter than the first version of the
\* structure, and else fills the version that fits and stores its length.
\* fails: the call fails for a reason of its own.
getsockopt(optlen, fails) ==
    IF fails \/ optlen < SizeofXdpStatisticsV1
    THEN [err |-> 0 - 1, optlen |-> optlen]
    ELSE IF optlen < SizeofXdpStatistics
    THEN [err |-> 0, optlen |-> SizeofXdpStatisticsV1]
    ELSE [err |-> 0, optlen |-> SizeofXdpStatistics]

\* xsk_get_xdp_stats: its return value, and whether it stored the driver
\* counters into *stats.
xsk_get_xdp_stats(fails) ==
    LET r == getsockopt(SizeofStatsPointer, fails)
    IN  IF r.err # 0 THEN [ret |-> r.err, read |-> FALSE]
        ELSE IF r.optlen = SizeofXdpStatistics
        THEN [ret |-> 0, read |-> TRUE]
        ELSE [ret |-> 0 - 22, read |-> FALSE]

\* xsknf_get_socket_stats(worker_idx, iface_idx, stats), called by the
\* application while the workers run or after it stopped them.
xsknf_get_socket_stats(worker_idx, iface_idx) ==
    /\ process = "alive"
    /\ at[main_t].pc \in {"started", "stopped"}
    /\ "AF_XDP" \in conf.working_mode
    /\ \E fails \in BOOLEAN :
       LET x == xsk_get_xdp_stats(fails)
       IN  /\ snapshot' = [called |-> TRUE, ret |-> 0, read |-> x.read]
           /\ log' = IF x.read /\ CanRun(worker_idx)
                     THEN log \cup {Event("statistics of a running worker written",
                                          worker_idx, iface_idx)}
                     ELSE log
    /\ UNCHANGED <<at, res, joins, affinity, egress_ebpf_program, process,
                   stop_workers>>
    /\ UNCHANGED data_path

----------------------------------------------------------------------------
(* The life of a process: configurations and specification.                *)

\* CPUs of the machine.
MaxCpus == 3

LifeConf(n, w, mode, tc, bp, copy) ==
    [Conf(n, 1, FALSE, FALSE, copy) EXCEPT
        !.workers = w, !.working_mode = mode, !.tc_progname = tc,
        !.busy_poll = bp]

\* One or two interfaces, one or two workers, the three working modes; a TC
\* program only where eBPF programs are loaded.
LifeConfs ==
    UNION {{LifeConf(n, w, mode, tc, bp, cp) :
                w \in {1, 2}, bp \in BOOLEAN, cp \in CopyModes(n),
                tc \in IF "XDP" \in mode THEN BOOLEAN ELSE {FALSE}}
           : n \in {1, 2},
             mode \in {{"AF_XDP"}, {"XDP"}, {"AF_XDP", "XDP"}}}

\* Before xsknf_init: nothing exists.  unknown: the configured interfaces
\* that do not exist; cpu_set: the affinity mask of the process.
InitLifeWith(c, unknown, cpu_set) ==
    /\ conf = c
    /\ env = [returns |-> {}, lens |-> {}, bytes |-> {}, pkts |-> 0,
              unknown |-> unknown]
    /\ fq = <<>>
    /\ rx = <<>>
    /\ tx = <<>>
    /\ cq = <<>>
    /\ outstanding_tx = <<>>
    /\ mem = <<>>
    /\ pc = "none"
    /\ ifx = 0
    /\ dst = 0
    /\ to_tx = <<>>
    /\ stop_workers = FALSE
    /\ joined = FALSE
    /\ arrivals = 0
    /\ ub = FALSE
    /\ last = [op |-> "none"]
    /\ stats = <<>>
    /\ self = 0
    /\ parked = <<>>
    /\ at = [t \in ThreadsOf(c) |->
                 IF t = main_t THEN At("init") ELSE At("none")]
    /\ res = [r \in Resources(c) |-> "none"]
    /\ joins = [w \in WorkersOf(c) |-> [by |-> nobody, done |-> FALSE]]
    /\ affinity = [t \in ThreadsOf(c) |->
                       IF t = main_t THEN cpu_set ELSE {}]
    /\ egress_ebpf_program = FALSE
    /\ log = {}
    /\ process = "alive"
    /\ snapshot = NoSnapshot
    /\ xsks = <<>>

InitLife ==
    \E c \in LifeConfs :
        \E unknown \in {{}, {c.num_interfaces - 1}},
           cpu_set \in SUBSET (0 .. (MaxCpus - 1)) \ {{}} :
            InitLifeWith(c, unknown, cpu_set)

\* A thread in xsknf_stop_workers or xsknf_cleanup.
Teardown ==
    \E t \in ThreadsOf(conf) :
        \/ set_stop(t)
        \/ join(t)
        \/ release(t)

WorkerThread ==
    \E w \in WorkersOf(conf) :
        \/ worker_test(w)
        \/ worker_batch(w)
        \/ worker_fatal(w)

NextLife ==
    \/ xsknf_init
    \/ xsknf_start_workers
    \/ spawn
    \/ WorkerThread
    \/ call_stop_workers
    \/ call_cleanup
    \/ Teardown
    \/ \E w \in WorkersOf(conf), i \in Ifaces : xsknf_get_socket_stats(w, i)

SpecLife == InitLife /\ [][NextLife]_vars

----------------------------------------------------------------------------
(* C12: xsknf_cleanup called twice.                                        *)

NextCleanupTwice == NextLife \/ call_cleanup_again

SpecCleanupTwice == InitLife /\ [][NextCleanupTwice]_vars

\* What a release of xsknf_cleanup can do wrong.
ReleaseFaults ==
    {"released twice", "read of an array that is not there",
     "read of workers, not allocated"}

\* C12: xsknf_cleanup is idempotent.  When a second call that follows a
\* completed first call has returned, nothing was released a second time and
\* no array that the first call freed was read.
C12_CleanupIdempotent ==
    at[main_t].pc = "cleaned again" =>
        \A e \in log : e.ev \notin ReleaseFaults

----------------------------------------------------------------------------
(* C13, C14, C15: failures of xsknf_init and xsknf_start_workers.          *)

\* The calls of xsknf_init whose failure is handled by exit_with_error.
InitCalls ==
    {"malloc", "calloc", "mmap", "xsk_umem__create",
     "xsk_socket__create_shared", "setsockopt", "xsk_ring_prod__reserve"}

\* xsknf_init has failed in a call that exit_with_error handles.
InitFailed == \E e \in log : e.ev \in InitCalls

\* C13: when xsknf_init fails, the cleanup of the fatal-error path touches
\* nothing that was not created: it joins no thread that was never started
\* and reads no array that was never allocated; and when the process exits,
\* everything that was created has been released.
C13_CleanupAfterFailedInit ==
    InitFailed =>
        /\ \A e \in log :
               e.ev \notin ReleaseFaults \cup {"join of a thread never started"}
        /\ process = "exited" => \A r \in DOMAIN res : res[r] # "live"

\* The calls of xsknf_init that set up kernel state.
KernelSetupCalls ==
    {"xsk_umem__create", "xsk_socket__create_shared", "bpf_xdp_attach",
     "RTM_NEWQDISC", "RTM_NEWTFILTER", "bpf_map_update_elem"}

\* C14: every kernel-setup failure during xsknf_init runs the cleanup before
\* the process exits: when the process has exited after such a failure, no
\* XDP program, clsact qdisc or egress filter that xsknf_init installed is
\* left on an interface.
C14_NothingLeftAttached ==
    (process = "exited" /\ \E e \in log : e.ev \in KernelSetupCalls) =>
        \A r \in DOMAIN res : r[1] \in Attachments => res[r] # "live"

\* The kinds of resource that are kernel state: UMEM regions, AF_XDP
\* sockets, XDP and TC attachments.
KernelState ==
    {"buffer", "copy_buffer", "umem", "copy_umem", "xsk"} \cup Attachments

\* C15: configuration errors are detected before any kernel state exists.
\* When the program has reported an unknown interface or too few CPUs for
\* the workers, it has created no UMEM region, no AF_XDP socket and no XDP
\* or TC attachment.
C15_ConfigErrorBeforeKernelState ==
    (\E e \in log : e.ev \in {"if_nametoindex", "not enough CPUs"}) =>
        \A r \in DOMAIN res : r[1] \in KernelState => res[r] = "none"

----------------------------------------------------------------------------
(* C16: the return value of xsknf_get_socket_stats.                        *)

\* C16: xsknf_get_socket_stats surfaces a failed read of the driver
\* statistics to its caller: it returns success only when the driver
\* counters of the snapshot were read.  (The call never ends the process:
\* xsknf_get_socket_stats leaves the variable process alone.)
C16_StatsFailureSurfaced ==
    snapshot.called => (snapshot.ret = 0 => snapshot.read)

----------------------------------------------------------------------------
(* C17, C18: who touches the state of a running worker.                    *)

\* What a worker's run-loop works on: its sockets, UMEMs, regions, socket
\* array and the worker array.
WorkerState ==
    {"xsk", "umem", "copy_umem", "buffer", "copy_buffer", "xsks", "workers"}

\* This step destroys state of a worker.
Destroys ==
    \E r \in DOMAIN res :
        /\ r[1] \in WorkerState
        /\ res[r] = "live"
        /\ res'[r] = "released"

\* The resources that make up the state of worker w.
StateOf(w) ==
    {r \in DOMAIN res : r[1] \in WorkerState \ {"workers"} /\ r[2] = w}

\* This step writes state of worker w: it deletes one of its sockets, UMEMs,
\* buffers or its socket array, or writes its per-socket statistics.
Writes(w) ==
    \/ \E r \in StateOf(w) : res'[r] # res[r]
    \/ \E e \in log' \ log :
           e.ev = "statistics of a running worker written" /\ e.w = w

\* C17: while a worker thread is running, no other thread writes any of that
\* worker's state (sockets, rings, outstanding_tx, per-socket statistics):
\* the control thread writes it only during init and teardown, and a call to
\* xsknf_get_socket_stats made while workers run only reads it.  A worker
\* that can run makes no step of Writes itself, so every such step is
\* another thread's.
C17_NoForeignWrite ==
    [][\A w \in WorkersOf(conf) : CanRun(w) => ~Writes(w)]_vars

\* C18: no socket, UMEM region or worker array is destroyed while a worker
\* thread can still execute the run-loop: on every path into xsknf_cleanup,
\* the fatal-error path taken from inside a worker thread included, every
\* worker thread has left worker_loop when the first socket is deleted.
C18_NoDestroyWhileRunning ==
    [][Destroys => \A w \in WorkersOf(conf) : ~CanRun(w)]_vars

----------------------------------------------------------------------------
(* Claim C19: the threads and their CPUs.                                  *)

\* The k-th CPU of a mask in ascending order, k counted from 0.
KthCpu(mask, k) ==
    CHOOSE c \in mask : Cardinality({d \in mask : d < c}) = k

\* xsknf_start_workers has returned to the application, in a mode that has
\* workers.
StartReturned ==
    /\ "AF_XDP" \in conf.working_mode
    /\ at[main_t].pc \in {"started", "stopped"}

----------------------------------------------------------------------------
(* Claim C20: the counters tx_npkts and tx_trigger_sendtos.                 *)

\* The counters of the sockets of a worker as calloc leaves them (line 944).
ZeroStats(c) ==
    [i \in 0 .. (c.num_interfaces - 1) |->
        [tx_npkts |-> 0, tx_trigger_sendtos |-> 0, rx_npkts |-> 0]]

\* One or two interfaces with a socket bound in copy mode, a batch smaller
\* than the completion ring, with and without poll.
StatsConfs ==
    {Conf(1, CounterMod - 1, p, FALSE, <<TRUE>>) : p \in BOOLEAN}
    \cup {Conf(2, CounterMod - 1, p, FALSE, <<FALSE, TRUE>>) : p \in BOOLEAN}

InitStats ==
    \E c \in StatsConfs :
        InitFrom(c, Env(c), [Started(c) EXCEPT !.stats = ZeroStats(c)])

SpecStats == InitStats /\ [][Next]_vars

\* C20: for every socket j bound in copy mode, in every reachable state
\* tx_npkts[j] <= batch_size * tx_trigger_sendtos[j]: every completion drain
\* on a copy-mode socket is preceded by one tx-kick that increments
\* tx_trigger_sendtos, and each drain completes at most batch_size
\* descriptors.
C20_TxNpktsBoundedByKicks ==
    \A j \in DOMAIN stats :
        IsCopy(j) =>
            stats[j].tx_npkts
                <= conf.batch_size * stats[j].tx_trigger_sendtos

\* Two drains of a copy-mode socket, each of a full batch after its kick.
C20_Witness ==
    \E j \in DOMAIN stats :
        /\ IsCopy(j)
        /\ stats[j].tx_npkts = 2 * conf.batch_size
        /\ stats[j].tx_trigger_sendtos = 2

----------------------------------------------------------------------------
(* Claim C21: what the retry loop of the forward step drains.              *)

\* This step is one iteration of the retry loop of process_batch.
RetryStep ==
    /\ conf.num_interfaces > 1
    /\ pc = "forward"
    /\ last'.op = "retry"

\* C21: in the forward step of process_batch for ingress i, when the
\* reservation on the tx ring of destination socket j fails, each iteration
\* of the retry loop drains the completion ring of the destination socket j
\* (complete_tx for j) before it reserves again, so that completed frames of
\* j are recycled and the completion ring of j regains room.
C21_RetryDrainsDestination ==
    [][RetryStep =>
           /\ cq' = complete_tx(dst).cq
           /\ outstanding_tx' = complete_tx(dst).outstanding_tx]_vars

----------------------------------------------------------------------------
(* Claim C22: the counters of the buckets.                                 *)

\* How many of the classifier's results are r.
Results(rets, r) == Cardinality({k \in DOMAIN rets : rets[k] = r})

\* The buckets the last batch was classified into.
LastBuckets ==
    IF conf.num_interfaces = 1
    THEN Classify_1if(last.descs, last.rets, 1, NoBuckets)
    ELSE Classify(last.descs, last.rets, 1, NoBuckets)

\* The completions the next complete_tx on socket i peeks, by owner.
NextToFill(i) ==
    LET ndescs == IF outstanding_tx[i] > conf.batch_size
                  THEN conf.batch_size ELSE outstanding_tx[i]
        sent   == xsk_ring_cons__peek(cq[i], ndescs)
    IN  [addrs   |-> SubSeq(cq[i], 1, sent),
         to_fill |-> MapToOwner(SubSeq(cq[i], 1, sent), EmptyBuckets)]

\* C22: for every configured batch size in 1..511 the per-batch bucket
\* counters (ndrop and ntx[] of process_batch and process_batch_1if, nfill[]
\* of complete_tx) equal the true number of descriptors bucketed, without
\* wrap-around, so that the counts passed to reserve and submit and added to
\* outstanding_tx are the true counts.
C22_BucketCountersTrue ==
    /\ last.op = "process_batch" =>
           /\ LastBuckets.to_drop.n = Results(last.rets, 0 - 1)
           /\ \A j \in Ifaces :
                  LastBuckets.to_tx[j].n = Results(last.rets, j)
    /\ conf.num_interfaces > 1 =>
           \A i, o \in Ifaces :
               NextToFill(i).to_fill[o].n =
                   Cardinality({k \in DOMAIN NextToFill(i).addrs :
                                    DecodeOwner(NextToFill(i).addrs[k]) = o})

----------------------------------------------------------------------------
(* Claim C23: the addresses xsk_configure_socket primes, and their owner.    *)

\* Frame sizes between 2048 and the page size, the sizes the kernel takes for
\* a UMEM: the powers of two, and others for unaligned chunks.
FrameSizes == {2048, 2560, 3000, 3072, 4096}

\* The check of the frame size by the parser of the command line (lines
\* 870-875): a size that is no power of two is refused unless unaligned
\* chunks are enabled.
Admitted(frame_size, unaligned) ==
    unaligned \/ frame_size = Pow2(Log2(frame_size))

\* One or two workers on one or two interfaces, every admitted frame size.
PrimeConfs ==
    UNION {{[Conf(n, CounterMod - 1, FALSE, u, cp) EXCEPT
                 !.workers = w, !.xsk_frame_size = s] :
               w \in {1, 2}, cp \in CopyModes(n),
               s \in {x \in FrameSizes : Admitted(x, u)}}
           : n \in {1, 2}, u \in BOOLEAN}

\* xsknf_init has configured the sockets of the workers before worker self
\* and is at the priming of the fill rings of worker self (line 964 on).
InitPrime ==
    \E c \in PrimeConfs :
        /\ conf = c
        /\ env = Env(c)
        /\ fq = [i \in 0 .. (c.num_interfaces - 1) |-> <<>>]
        /\ rx = [i \in 0 .. (c.num_interfaces - 1) |-> <<>>]
        /\ tx = [i \in 0 .. (c.num_interfaces - 1) |-> <<>>]
        /\ cq = [i \in 0 .. (c.num_interfaces - 1) |-> <<>>]
        /\ outstanding_tx = [i \in 0 .. (c.num_interfaces - 1) |-> 0]
        /\ mem = [r \in (0 .. (c.workers - 1)) \X {"buffer", "copy_buffer"}
                      |-> <<>>]
        /\ pc = "none"
        /\ ifx = 0
        /\ dst = 0
        /\ to_tx = [i \in 0 .. (c.num_interfaces - 1) |-> EmptyBucket]
        /\ stop_workers = FALSE
        /\ joined = FALSE
        /\ arrivals = 0
        /\ ub = FALSE
        /\ last = [op |-> "none"]
        /\ stats = <<>>
        /\ self = 0
        /\ parked = <<>>
        /\ at = [t \in ThreadsOf(c) |->
                     IF t = main_t THEN At("init") ELSE At("none")]
        /\ res = [r \in Resources(c) |-> "none"]
        /\ joins = [w \in WorkersOf(c) |-> [by |-> nobody, done |-> FALSE]]
        /\ affinity = [t \in ThreadsOf(c) |->
                           IF t = main_t THEN WorkersOf(c) ELSE {}]
        /\ egress_ebpf_program = FALSE
        /\ log = {}
        /\ process = "alive"
        /\ snapshot = NoSnapshot
        /\ xsks = <<>>

\* One turn of the loop of xsk_configure_socket that primes the fill ring of
\* socket if_idx of worker self (lines 169-170), called with umem_offset =
\* if_idx * FRAMES_PER_SOCKET (line 996) once the sockets before it are done.
prime_fill(if_idx) ==
    /\ at[main_t].pc = "init"
    /\ \A j \in 0 .. (if_idx - 1) : Len(fq[j]) = FramesPrimed
    /\ Len(fq[if_idx]) < FramesPrimed
    /\ fq' = [fq EXCEPT ![if_idx] =
                 Append(@, PrimedAddr(conf.xsk_frame_size,
                                      if_idx * FRAMES_PER_SOCKET, Len(@)))]
    /\ last' = [op |-> "prime", ifindex |-> if_idx]
    /\ UNCHANGED <<off_path, stats>>
    /\ UNCHANGED <<conf, env, rx, tx, cq, outstanding_tx, mem, pc, ifx, dst,
                   to_tx, stop_workers, joined, arrivals, ub>>

\* The loop over the workers (line 945): the sockets of worker self are
\* done, those of the next worker are set up.
next_worker ==
    /\ at[main_t].pc = "init"
    /\ \A j \in Ifaces : Len(fq[j]) = FramesPrimed
    /\ self + 1 < conf.workers
    /\ parked' = [x \in DOMAIN parked \cup {self} |->
                     IF x = self THEN Running ELSE parked[x]]
    /\ self' = self + 1
    /\ fq' = [i \in Ifaces |-> <<>>]
    /\ last' = [op |-> "worker"]
    /\ UNCHANGED <<life, stats>>
    /\ UNCHANGED <<conf, env, rx, tx, cq, outstanding_tx, mem, pc, ifx, dst,
                   to_tx, stop_workers, joined, arrivals, ub>>

NextPrime ==
    \/ \E if_idx \in Ifaces : prime_fill(if_idx)
    \/ next_worker

SpecPrime == InitPrime /\ [][NextPrime]_vars

\* The fill rings of the sockets of every worker set up so far.
FillRings == {fq} \cup {parked[w].fq : w \in DOMAIN parked}

\* C23: after init, for every worker, every interface i < num_interfaces and
\* every k in [0, 4096), the address (i * 4096 + k) * frame_size primed into
\* the fill ring of socket i decodes to owner i (addr >> owner_shift = i),
\* with owner_shift = 12 + log2(frame_size); this holds for every frame size
\* the configuration admits (a power of two, or any size when unaligned
\* chunks are enabled), and the slot ranges of different interfaces are
\* disjoint.
C23_PrimedDecodesToOwner ==
    /\ \A f \in FillRings : \A i \in Ifaces : \A k \in DOMAIN f[i] :
           /\ f[i][k] = PrimedAddr(conf.xsk_frame_size,
                                   i * FRAMES_PER_SOCKET, k - 1)
           /\ ShiftedEquals(f[i][k], i)
           /\ DecodeOwner(f[i][k]) \in Ifaces
    /\ \A i \in Ifaces :
           Len(fq[i]) = FramesPrimed =>
               /\ owner_shift
                      = FRAMES_PER_SOCKET_SHIFT + Log2(conf.xsk_frame_size)
               /\ ShiftedEquals(PrimedAddr(conf.xsk_frame_size,
                                           i * FRAMES_PER_SOCKET,
                                           FRAMES_PER_SOCKET - 1), i)
    /\ \A i, j \in Ifaces :
           i < j =>
               (i * FRAMES_PER_SOCKET + FRAMES_PER_SOCKET)
                       * conf.xsk_frame_size
                   <= (j * FRAMES_PER_SOCKET) * conf.xsk_frame_size

----------------------------------------------------------------------------
(* Claim C24: the reservations on the fill rings.                          *)

\* A frame size of unaligned chunk mode that is no power of two, small
\* enough for one of the first frames of an interface to decode to the next
\* owner (frame 11 with a frame size of 3000 in the source's ring sizes).
OddFrameSizes == {XSK_UMEM__DEFAULT_FRAME_SIZE \div 2 + 1}

\* The configurations of unaligned chunk mode with such a frame size, the
\* batch below the modulus of the bucket counters.
OddFrameConfs ==
    UNION {{[Conf(n, CounterMod - 1, p, TRUE, cp) EXCEPT
                 !.xsk_frame_size = s] :
               p \in BOOLEAN, cp \in CopyModes(n), s \in OddFrameSizes}
           : n \in {1, 2}}

InitOddFrame == \E c \in OddFrameConfs : InitWith(c, Env(c))

SpecOddFrame == InitOddFrame /\ [][Next]_vars

\* C24: fill-ring reservations on the data path never under-reserve: in
\* every reachable state the reservation of |to_drop| slots on the fill ring
\* of the ingress socket in process_batch and the reservation of nfill[o]
\* slots on the fill ring of owner o in complete_tx (and their
\* single-interface counterparts) obtain all requested slots, so that the
\* fatal branch of a partial reservation is unreachable.
C24_NoPartialReservation == pc # "fatal"

----------------------------------------------------------------------------
(* Claim C25: outstanding_tx and the drain of complete_tx.                  *)

\* outstanding_tx[j] is the number of descriptors submitted to the tx ring of
\* socket j and not yet drained from its completion ring, and is not
\* negative.
OutstandingIsInFlight ==
    \A j \in Ifaces :
        /\ outstanding_tx[j] >= 0
        /\ outstanding_tx[j] = Len(tx[j]) + Len(cq[j])

\* With outstanding_tx[j] at 0, complete_tx on socket j touches no ring and
\* kicks nothing.
IdleWhenNothingOutstanding ==
    \A j \in Ifaces :
        outstanding_tx[j] = 0 =>
            LET c == IF conf.num_interfaces = 1 THEN complete_tx_1if
                     ELSE complete_tx(j)
            IN  /\ c.fq = fq
                /\ c.cq = cq
                /\ c.outstanding_tx = outstanding_tx
                /\ c.sent = 0
                /\ \A needs_wakeup \in BOOLEAN :
                       tx_trigger(j, needs_wakeup) = 0

\* A step drains from the completion ring of a socket at most
\* min(outstanding_tx, batch_size) completions.
DrainWithinBatch ==
    \A j \in Ifaces :
        Len(cq[j]) - Len(cq'[j]) <= Min(outstanding_tx[j], conf.batch_size)

\* C25: for every socket j and in every reachable state, outstanding_tx[j]
\* equals the number of descriptors submitted to the tx ring of j that have
\* not yet been drained from the completion ring of j; it never underflows,
\* a single complete_tx call drains at most min(outstanding_tx[j],
\* batch_size) completions, and complete_tx performs no ring operation and no
\* kick when outstanding_tx[j] is 0.
C25_OutstandingTxExact ==
    /\ [](OutstandingIsInFlight /\ IdleWhenNothingOutstanding)
    /\ [][DrainWithinBatch]_vars

\* process_batch for socket j has just drained the completion ring of j by a
\* batch and left completions on it: the drain was cut at batch_size.
C25_Witness ==
    \E j \in Ifaces :
        /\ last.op = "process_batch"
        /\ last.ifindex = j
        /\ cq[j] # <<>>
        /\ outstanding_tx[j] > 0
        /\ outstanding_tx[j] < tx_size + comp_size

----------------------------------------------------------------------------
(* Claim C26: the single-interface path and the general path.              *)

\* The configurations of Confs with one interface; the classifier returns
\* -1 or 0.
OneIfaceConfs == {c \in Confs : c.num_interfaces = 1}

InitOneIface ==
    \E c \in OneIfaceConfs :
        InitFrom(c, Env(c), [Started(c) EXCEPT !.stats = ZeroStats(c)])

\* Lines 738-744: with one interface worker_loop calls process_batch_1if.
NextOneIface ==
    \/ worker_loop
    \/ poll
    \/ process_batch_1if
    \/ forward_tx_1if
    \/ forward_retry_1if
    \/ Kernel

SpecOneIface == InitOneIface /\ [][NextOneIface]_vars

\* A step of the single-interface path is the step the general path makes
\* from the same state with the same results of the classifier: the same
\* rings, outstanding_tx and counters after it.
SameAsGeneral ==
    /\ process_batch_1if => general_process_batch
    /\ forward_tx_1if => general_forward_tx
    /\ forward_retry_1if => general_forward_retry

\* C26: with exactly one interface and classifier results restricted to
\* {-1, 0}, the single-interface path (process_batch_1if with
\* complete_tx_1if) and the general path (process_batch with complete_tx),
\* started from the same ring state and fed the same kernel and classifier
\* steps, produce the same fill, rx, tx and completion ring contents, the
\* same outstanding_tx and the same rx_npkts and tx_npkts counters after
\* every batch.
C26_SingleInterfaceIsGeneral ==
    /\ [](complete_tx_1if = complete_tx(0))
    /\ [][SameAsGeneral]_vars

----------------------------------------------------------------------------
(* Claim C27: bind flags and UMEM regions of the sockets.                  *)

\* Line 39
DEFAULT_BIND_FLAGS == {"XDP_USE_NEED_WAKEUP"}

\* The copy mode an interface is given with on the command line:
\* name, name:c or name:z.
BindModes == {"", "c", "z"}

\* Lines 799-808: the bind flags xsknf_parse_args stores for -i name[:mode].
ParsedFlags(mode) ==
    DEFAULT_BIND_FLAGS
        \cup (IF mode = "c" THEN {"XDP_COPY"}
              ELSE IF mode = "z" THEN {"XDP_ZEROCOPY"} ELSE {})

\* Bind flags that keep a requested zero-copy next to the forced copy.
SetBindFlagsKeepZeroCopy(flags, skb_mode) ==
    LET forced == IF skb_mode THEN flags \cup {"XDP_COPY"} ELSE flags
    IN  IF forced \cap {"XDP_COPY", "XDP_ZEROCOPY"} = {}
        THEN forced \cup {"XDP_ZEROCOPY"}
        ELSE forced

\* Lines 908-922: the bind flags xsknf_init leaves for one interface.
SetBindFlags(flags, skb_mode) ==
    LET forced == IF skb_mode
                  THEN (flags \ {"XDP_ZEROCOPY"}) \cup {"XDP_COPY"}
                  ELSE flags
    IN  IF forced \cap {"XDP_COPY", "XDP_ZEROCOPY"} = {}
        THEN forced \cup {"XDP_ZEROCOPY"}
        ELSE forced

\* The sequences of n copy modes.
BindModeSeqs(n) == IF n = 1 THEN {<<m>> : m \in BindModes}
                   ELSE {<<m1, m2>> : m1, m2 \in BindModes}

\* The configuration xsknf_parse_args returns for n interfaces given with
\* the copy modes modes, w workers and -S given or not: bind_flags as
\* parsed, skb_mode is xdp_flags & XDP_FLAGS_SKB_MODE.
BindConf(n, w, modes, skb) ==
    [Conf(n, CounterMod - 1, FALSE, FALSE,
          [i \in 1 .. n |-> "XDP_COPY" \in ParsedFlags(modes[i])])
        EXCEPT !.workers = w]
    @@ [bind_flags |-> [i \in 1 .. n |-> ParsedFlags(modes[i])],
        skb_mode   |-> skb]

\* xsknf_init is at the loop that sets the bind flags (line 907): no worker
\* exists, no region is mapped, no socket is configured.
InitBind ==
    \E n \in {1, 2}, w \in {1, 2}, skb \in BOOLEAN :
    \E modes \in BindModeSeqs(n) :
        LET c == BindConf(n, w, modes, skb)
        IN  /\ conf = c
            /\ env = [bind_mode |-> modes]
            /\ fq = [i \in 0 .. (n - 1) |-> <<>>]
            /\ rx = [i \in 0 .. (n - 1) |-> <<>>]
            /\ tx = [i \in 0 .. (n - 1) |-> <<>>]
            /\ cq = [i \in 0 .. (n - 1) |-> <<>>]
            /\ outstanding_tx = [i \in 0 .. (n - 1) |-> 0]
            /\ mem = <<>>
            /\ pc = "none"
            /\ ifx = 0
            /\ dst = 0
            /\ to_tx = [i \in 0 .. (n - 1) |-> EmptyBucket]
            /\ stop_workers = FALSE
            /\ joined = FALSE
            /\ arrivals = 0
            /\ ub = FALSE
            /\ last = [op |-> "none"]
            /\ stats = <<>>
            /\ self = 0
            /\ parked = <<>>
            /\ at = [t \in ThreadsOf(c) |->
                         IF t = main_t THEN Pos("init", 0, "bind_flags")
                         ELSE At("none")]
            /\ res = <<>>
            /\ joins = [x \in WorkersOf(c) |-> [by |-> nobody, done |-> FALSE]]
            /\ affinity = [t \in ThreadsOf(c) |->
                               IF t = main_t THEN WorkersOf(c) ELSE {}]
            /\ egress_ebpf_program = FALSE
            /\ log = {}
            /\ process = "alive"
            /\ snapshot = NoSnapshot
            /\ xsks = <<>>

\* What the steps of xsknf_init below leave alone.
init_rest == <<env, fq, rx, tx, cq, outstanding_tx, pc, ifx, dst, to_tx,
               stop_workers, joined, arrivals, ub, stats, self, parked, res,
               joins, affinity, egress_ebpf_program, process, snapshot>>

\* Lines 907-923: one turn of the loop over the interfaces that sets
\* conf.bind_flags[if_idx]; conf.copy is bind_flags & XDP_COPY.
set_bind_flags ==
    /\ at[main_t].pc = "init"
    /\ at[main_t].call = "bind_flags"
    /\ LET if_idx == at[main_t].i
           flags  == SetBindFlags(conf.bind_flags[if_idx + 1], conf.skb_mode)
       IN  /\ conf' = [conf EXCEPT !.bind_flags[if_idx + 1] = flags,
                                   !.copy[if_idx + 1] = "XDP_COPY" \in flags]
           /\ at' = [at EXCEPT ![main_t] =
                        IF if_idx + 1 < conf.num_interfaces
                        THEN Pos("init", if_idx + 1, "bind_flags")
                        ELSE Pos("init", 0, "sockets")]
           /\ last' = [op |-> "bind_flags", ifindex |-> if_idx]
    /\ UNCHANGED <<init_rest, mem, xsks, log>>

\* The region the socket the loops of lines 945-957 are at will use (line
\* 960), and whether the worker has mapped it already (lines 961, 978).
RegionKind(if_idx) ==
    IF "XDP_COPY" \in conf.bind_flags[if_idx + 1]
    THEN "copy_buffer" ELSE "buffer"

\* Lines 956-997 and 136-139: socket if_idx of worker wrk_idx is created.
\* The region of its copy mode is mapped and its UMEM created if the worker
\* has none yet; xsk->buffer, xsk->bind_flags and the UMEM the socket is
\* created on (chosen from xsk->bind_flags, line 138) are set.
create_socket ==
    /\ at[main_t].pc = "init"
    /\ at[main_t].call = "sockets"
    /\ LET wrk_idx == at[main_t].i \div conf.num_interfaces
           if_idx  == at[main_t].i % conf.num_interfaces
           region  == <<wrk_idx, RegionKind(if_idx)>>
           flags   == conf.bind_flags[if_idx + 1]
           xsk     == [bind_flags |-> flags,
                       buffer     |-> region,
                       umem       |-> <<wrk_idx, IF "XDP_COPY" \in flags
                                                  THEN "copy_umem"
                                                  ELSE "umem">>]
       IN  /\ mem' = [r \in DOMAIN mem \cup {region} |->
                         IF r \in DOMAIN mem THEN mem[r] ELSE <<>>]
           /\ xsks' = [s \in DOMAIN xsks \cup {<<wrk_idx, if_idx>>} |->
                          IF s \in DOMAIN xsks THEN xsks[s] ELSE xsk]
           /\ at' = [at EXCEPT ![main_t] =
                        IF at[main_t].i + 1
                               < conf.workers * conf.num_interfaces
                        THEN Pos("init", at[main_t].i + 1, "sockets")
                        ELSE At("inited")]
           /\ last' = [op |-> "socket", worker |-> wrk_idx,
                       ifindex |-> if_idx]
    /\ UNCHANGED <<init_rest, conf, log>>

\* Lines 962-966 and 979-983: mmap fails for a region the worker has not
\* mapped yet, and xsknf_init leaves through exit_with_error.
mmap_fails ==
    /\ at[main_t].pc = "init"
    /\ at[main_t].call = "sockets"
    /\ LET wrk_idx == at[main_t].i \div conf.num_interfaces
           if_idx  == at[main_t].i % conf.num_interfaces
       IN  /\ <<wrk_idx, RegionKind(if_idx)>> \notin DOMAIN mem
           /\ log' = log \cup {Event("mmap", wrk_idx, if_idx)}
           /\ last' = [op |-> "mmap", worker |-> wrk_idx, ifindex |-> if_idx]
    /\ at' = [at EXCEPT ![main_t] = Pos("stop", 0, "exit_with_error")]
    /\ UNCHANGED <<init_rest, conf, mem, xsks>>

NextBind ==
    \/ set_bind_flags
    \/ create_socket
    \/ mmap_fails

SpecBind == InitBind /\ [][NextBind]_vars

\* The regions worker w holds.
Held(w) == {r \in DOMAIN mem : r[1] = w}

\* The socket has the copy flag set.
CopyBound(s) == "XDP_COPY" \in xsks[s].bind_flags

\* C27: after init, every socket's bind flags contain exactly one of copy
\* and zero-copy: copy when SKB mode is requested globally (overriding an
\* explicit zero-copy request) or copy was requested for the interface,
\* zero-copy otherwise; and a socket is backed by the worker's copy-mode
\* UMEM region exactly when its copy flag is set, so a copy-mode and a
\* zero-copy socket of one worker never share a region and a worker holds
\* at most two regions.
C27_BindFlagsAndRegions ==
    /\ at[main_t].pc = "inited" =>
           DOMAIN xsks = WorkersOf(conf) \X Ifaces
    /\ \A s \in DOMAIN xsks :
           /\ Cardinality(xsks[s].bind_flags
                              \cap {"XDP_COPY", "XDP_ZEROCOPY"}) = 1
           /\ CopyBound(s)
                  <=> (conf.skb_mode \/ env.bind_mode[s[2] + 1] = "c")
           /\ CopyBound(s) <=> xsks[s].buffer = <<s[1], "copy_buffer">>
           /\ ~CopyBound(s) <=> xsks[s].buffer = <<s[1], "buffer">>
           /\ CopyBound(s) <=> xsks[s].umem = <<s[1], "copy_umem">>
           /\ ~CopyBound(s) <=> xsks[s].umem = <<s[1], "umem">>
           /\ xsks[s].buffer \in Held(s[1])
           /\ xsks[s].buffer = Region(s[1], s[2])
    /\ \A s, t \in DOMAIN xsks :
           (s[1] = t[1] /\ CopyBound(s) /\ ~CopyBound(t))
               => xsks[s].buffer # xsks[t].buffer
    /\ \A w \in WorkersOf(conf) :
           /\ Cardinality(Held(w)) <= 2
           /\ \A r \in Held(w) : \E s \in DOMAIN xsks : xsks[s].buffer = r

\* Init is over for two workers with a copy-mode and a zero-copy socket each,
\* the zero-copy one by default.
C27_Witness ==
    /\ at[main_t].pc = "inited"
    /\ conf.workers = 2
    /\ conf.num_interfaces = 2
    /\ env.bind_mode = <<"c", "">>
    /\ CopyBound(<<1, 0>>)
    /\ ~CopyBound(<<1, 1>>)
    /\ Cardinality(Held(1)) = 2

----------------------------------------------------------------------------
(* Claim C28: kick_tx and the errors of sendto.                            *)

\* The errno values kick_tx tests for (line 408-409) and two it does not.
Errnos == {"ENOBUFS", "EAGAIN", "EBUSY", "ENETDOWN", "ENXIO", "EBADF"}

\* What sendto(fd, NULL, 0, MSG_DONTWAIT, NULL, 0) gives kick_tx: 0, or -1
\* with errno set.
SendtoResults ==
    {[ret |-> 0, errno |-> ""]} \cup {[ret |-> 0 - 1, errno |-> e] : e \in Errnos}

\* A kick_tx that gives up on EAGAIN as well.
kick_tx_strict(ret, errno) ==
    IF ret >= 0 \/ errno = "ENOBUFS" \/ errno = "EBUSY" \/ errno = "ENETDOWN"
    THEN "return"
    ELSE "exit"

\* Lines 402-411: kick_tx returns to its caller, or leaves through
\* exit_with_error.
kick_tx(ret, errno) ==
    IF ret >= 0 \/ errno = "ENOBUFS" \/ errno = "EAGAIN"
       \/ errno = "EBUSY" \/ errno = "ENETDOWN"
    THEN "return"
    ELSE "exit"

\* The socket complete_tx is called for: xsks[ifindex] on the general path,
\* xsks[0] on the single-interface path.
TxSocket == IF conf.num_interfaces > 1 THEN ifx ELSE 0

\* The destination the retry loop is at (lines 553 and 697).
Destination == IF conf.num_interfaces > 1 THEN dst ELSE 0

\* The worker is at a call of complete_tx: at the top of process_batch or
\* process_batch_1if, or in the retry loop after a short reservation on the
\* tx ring (lines 555-558 and 698-701).
AtCompleteTx ==
    \/ pc = "batch"
    \/ /\ pc = "forward"
       /\ xsk_ring_prod__reserve(tx[Destination], tx_size,
                                 to_tx[Destination].n)
              # to_tx[Destination].n

\* The step counts no tx trigger.
Uncounted ==
    \A i \in DOMAIN stats :
        stats'[i].tx_trigger_sendtos = stats[i].tx_trigger_sendtos

\* The steps of the worker in which kick_tx is not called: complete_tx finds
\* no reason to trigger tx (lines 431-439), and the tx ring of the
\* destination asks for no wakeup (lines 559, 702).
no_kick ==
    \/ worker_loop
    \/ poll
    \/ forward_tx
    \/ forward_tx_1if
    \/ /\ \E needs_wakeup \in BOOLEAN : tx_trigger(TxSocket, needs_wakeup) = 0
       /\ ~conf.busy_poll \/ pc = "batch"
       /\ \/ process_batch
          \/ process_batch_1if
          \/ forward_retry
          \/ forward_retry_1if
       /\ Uncounted

\* Lines 438-442 with 410, and 604-608: complete_tx triggers tx, sendto gives
\* r and kick_tx leaves through exit_with_error before a ring is touched.
tx_kick_exit(r) ==
    /\ pc \in {"batch", "forward"}
    /\ AtCompleteTx
    /\ \E needs_wakeup \in BOOLEAN : tx_trigger(TxSocket, needs_wakeup) = 1
    /\ kick_tx(r.ret, r.errno) = "exit"
    /\ Countable
    /\ stats' = Counted(TxSocket, 1, 0, 0)
    /\ pc' = "fatal"
    /\ last' = [op |-> "kick_tx", ifindex |-> TxSocket, errno |-> r.errno]
    /\ UNCHANGED off_path
    /\ UNCHANGED <<conf, env, fq, rx, tx, cq, outstanding_tx, mem, ifx, dst,
                   to_tx, stop_workers, joined, arrivals, ub>>

\* Lines 558-562 and 701-705: in the retry loop complete_tx has returned
\* without a kick, the tx ring of the destination asks for a wakeup, sendto
\* gives r and kick_tx leaves through exit_with_error.
wakeup_kick_exit(r) ==
    /\ pc = "forward"
    /\ AtCompleteTx
    /\ \E needs_wakeup \in BOOLEAN : tx_trigger(TxSocket, needs_wakeup) = 0
    /\ kick_tx(r.ret, r.errno) = "exit"
    /\ LET c == IF conf.num_interfaces > 1 THEN complete_tx(ifx)
                ELSE complete_tx_1if
       IN  /\ c.end = "ok"
           /\ fq' = c.fq
           /\ cq' = c.cq
           /\ outstanding_tx' = c.outstanding_tx
           /\ Countable
           /\ stats' = Counted(TxSocket, 0, c.sent, 0)
    /\ pc' = "fatal"
    /\ last' = [op |-> "kick_tx", ifindex |-> Destination, errno |-> r.errno]
    /\ UNCHANGED off_path
    /\ UNCHANGED <<conf, env, rx, tx, mem, ifx, dst, to_tx, stop_workers,
                   joined, arrivals, ub>>

\* A step of the worker in which every sendto of kick_tx gives r.
WorkerSendto(r) ==
    \/ /\ kick_tx(r.ret, r.errno) = "return"
       /\ Worker
    \/ /\ kick_tx(r.ret, r.errno) = "exit"
       /\ no_kick
    \/ tx_kick_exit(r)
    \/ wakeup_kick_exit(r)

NextKick ==
    \/ \E r \in env.sendto : WorkerSendto(r)
    \/ Kernel

\* One interface bound in either mode, and two with the second bound in
\* copy mode.
KickConfs ==
    {Conf(1, CounterMod - 1, FALSE, FALSE, cp) : cp \in CopyModes(1)}
        \cup {Conf(2, CounterMod - 1, FALSE, FALSE, <<FALSE, TRUE>>)}

\* What the kernel of the run gives: success, a failure kick_tx tests for
\* and one it does not.
KernelSendto ==
    {r \in SendtoResults : r.errno \in {"", "EAGAIN", "ENXIO"}}

InitKick ==
    \E c \in KickConfs :
        InitWith(c, Env(c) @@ [sendto |-> KernelSendto])

SpecKick == InitKick /\ [][NextKick]_vars

\* The errors kick_tx is to ignore.
Benign == {"ENOBUFS", "EAGAIN", "EBUSY", "ENETDOWN"}

\* The socket has descriptors outstanding and is bound in copy mode, so
\* complete_tx kicks whatever the tx ring says.
KickCertain ==
    /\ AtCompleteTx
    /\ \A needs_wakeup \in BOOLEAN : tx_trigger(TxSocket, needs_wakeup) = 1

\* A failure with an errno of Benign leaves the step of the worker what it
\* is when sendto succeeds: the same rings and outstanding_tx after it.
BenignIgnored ==
    \A r \in env.sendto :
        (r.ret < 0 /\ r.errno \in Benign)
            => (WorkerSendto(r) <=> WorkerSendto([ret |-> 0, errno |-> ""]))

\* A failure with any other errno ends the step in the fatal exit, before a
\* ring is touched when it is the kick of complete_tx.
OtherFatal ==
    \A r \in env.sendto :
        (r.ret < 0 /\ r.errno \notin Benign /\ KickCertain /\ WorkerSendto(r))
            => /\ pc' = "fatal"
               /\ UNCHANGED <<fq, rx, tx, cq, outstanding_tx>>

\* C28: a tx kick (zero-length sendto) that fails with ENOBUFS, EAGAIN,
\* EBUSY or ENETDOWN is ignored: the worker continues the current batch
\* with all rings and outstanding_tx unchanged by the failure; a kick that
\* fails with any other error is fatal and runs the fatal-exit path.
C28_KickErrors ==
    /\ [](\A r \in SendtoResults :
              kick_tx(r.ret, r.errno) = "return"
                  <=> (r.ret >= 0 \/ r.errno \in Benign))
    /\ [][BenignIgnored /\ OtherFatal]_vars
    /\ [](last.op = "kick_tx" => pc = "fatal" /\ last.errno \notin Benign)

\* The kick of complete_tx on a socket with descriptors on its completion
\* ring has failed with an errno kick_tx does not ignore.
C28_Witness ==
    /\ pc = "fatal"
    /\ last.op = "kick_tx"
    /\ last.errno = "ENXIO"
    /\ outstanding_tx[last.ifindex] > 0
    /\ cq[last.ifindex] # <<>>

====
